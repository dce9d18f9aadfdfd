-------------------------- MODULE RpcSystemProofs --------------------------
(***************************************************************************)
(* Proofs about RpcSystem, for any number of calls, connects, services and *)
(* registrations.  The composition is a Client and a Server, so that what  *)
(* is proved of them holds of it; with what ties the two ends of a stream  *)
(* together, it is a RemoteCall that answers in order.                     *)
(***************************************************************************)
EXTENDS RpcSystem, ClientProofs

\* The proofs about Server, of the server of this system.
SP == INSTANCE ServerProofs WITH
    Sessions    <- Connects,
    Readers     <- Connects,
    MaxRequests <- EveryCall,
    Garbage     <- Undecodable,
    sent        <- MethodsSent,
    stream      <- StreamsSeen

-----------------------------------------------------------------------------
(* The inductive invariant.                                                *)

Executions ==
    {"none", "rejected", "running", "ok", "error", "timeout", "panicked"}

SystemType ==
    /\ method \in [Calls -> S!Methods]
    /\ asked \in [Connects -> Seq(Request)]
    /\ execution \in [Calls -> Executions]

\* The streams that the client stores are those of connects that have begun.
StoredAreOpened ==
    LET opened == {p \in Connects : connectPc[p] # "idle"}
    IN  /\ {session, message_stream} \subseteq opened \cup {NoOne}
        /\ \A h \in Connects : handlerStream[h] \in opened \cup {NoOne}

\* The two ends of stream s.  What the server has replied is what the client
\* has read and then, as long as the stream is up, what is on the way: the
\* answers to the requests that come next.  Of a stream that is down the
\* client still reads what has reached it, a first part of those.
StreamLink(s) ==
    /\ connectPc[s] = "idle" => stream[s] = "none"
    /\ stream[s] = "none" => sessionPc[s] = "accepting" /\ read[s] = 0
    /\ stream[s] = "ended" => sessionPc[s] = "ended"
    /\ toClient[s] # <<>> => stream[s] \in {"open", "ended", "down"}
    /\ stream[s] \in {"open", "ended"} =>
          Len(replies[s]) = read[s] + Len(toClient[s])
    /\ read[s] + Len(toClient[s]) <= Len(replies[s])
    /\ Len(replies[s]) <= taken[s]

Linked == \A s \in Connects : StreamLink(s)

\* The answers that an execution allows.
Allowed(tag, how) ==
    \/ tag = "ok" /\ how = "ok"
    \/ tag = "rpc_failed" /\ how \in {"error", "timeout", "rejected"}

\* The k-th response on the way answers the k-th request that is unanswered.
AnswerOnTheWay(s, k) ==
    LET m == toClient[s][k]
    IN  /\ m \in Response
        /\ m.of = asked[s][read[s] + k].of
        /\ Allowed(m.tag, execution[m.of])

OnTheWay ==
    \A s \in Connects : \A k \in 1 .. Len(toClient[s]) : AnswerOnTheWay(s, k)

\* The server has taken the request of c up.
TakenUp(c) ==
    \E s \in Connects : \E k \in 1 .. taken[s] : asked[s][k].of = c

\* What the session s knows of the request in hand.
InHandExecution(s) ==
    LET how == execution[InHand(s).of]
    IN  /\ sessionPc[s] = "queued" => how = "none"
        /\ sessionPc[s] = "calling" => how = "running"
        /\ sessionPc[s] = "sending" =>
              how = IF response[s] \in {"invalid", "not_found"}
                    THEN "rejected" ELSE response[s]

Executing ==
    /\ \A c \in Calls : ~ TakenUp(c) => execution[c] = "none"
    /\ \A s \in Connects : InHandExecution(s)

\* The client has read the answer to c.
Heard(c) ==
    \E s \in Connects : \E k \in 1 .. read[s] : asked[s][k].of = c

\* What a call has been told, and whether it has been.
Told(c) ==
    /\ rx[c] \in Answers => Heard(c) /\ Allowed(rx[c].tag, execution[c])
    /\ result[c] \in Answers => Heard(c)
    /\ callPc[c] # "returned" => result[c] = Empty
    /\ Heard(c) => ~ (callPc[c] = "waiting" /\ rx[c] = Empty)

AllTold == \A c \in Calls : Told(c)

SystemInv ==
    /\ DeliveryInv /\ IdInv     \* of the client
    /\ SP!Inv                   \* of Server
    /\ SystemType
    /\ StoredAreOpened
    /\ Linked
    /\ OnTheWay
    /\ Executing
    /\ AllTold

-----------------------------------------------------------------------------
(* The system is a Client.                                                 *)

LEMMA SystemStepsOfClient == [SystemNext]_systemVars => [Next]_vars
<1>1. ASSUME ClientAlone PROVE Next
  BY <1>1 DEF ClientAlone, Next, CallStep, CallProgress, HandlerStep,
              Environment
<1>2. ASSUME NEW c \in Calls, Ask(c) PROVE Next
  BY <1>2 DEF Ask, Next, CallStep, CallProgress
<1>3. ASSUME NEW s \in Connects,
             \/ Dispatch(s) \/ Accept(s) \/ TakeUp(s) \/ LookUp(s) \/ Serve(s)
             \/ Respond(s) \/ EndSession(s)
      PROVE  [Next]_vars
  BY <1>3 DEF Dispatch, Accept, TakeUp, LookUp, Serve, Respond, EndSession,
              Next, HandlerStep, Environment
<1>4. ASSUME \/ Rest \/ UNCHANGED systemVars
             \/ \E r \in Registrars : RegisterService(r)
      PROVE  UNCHANGED vars
  BY <1>4 DEF Rest, systemVars, deliveryVars, RegisterService
<1> QED
  BY <1>1, <1>2, <1>3, <1>4 DEF SystemNext

\* The system is a Client: whatever is proved of Client holds in it, and the
\* server never uses the freedom that Client leaves its peer beyond that.
THEOREM SystemIsClient == SystemSpec => Spec
<1>1. SystemInit => Init
  BY DEF SystemInit, DeliveryInit
<1> QED
  BY <1>1, SystemStepsOfClient, PTL DEF SystemSpec, Spec

\* And what it asks is what the history of Deliveries records: all but Ask
\* leave the history alone, and give the transport nothing.
LEMMA SystemStepsOfDeliveries ==
    SystemInv /\ [SystemNext]_systemVars => [DeliveryNext]_deliveryVars
<1> SUFFICES ASSUME SystemInv, [SystemNext]_systemVars
             PROVE  [DeliveryNext]_deliveryVars
  OBVIOUS
<1>0. TypeInv /\ Delivered /\ [Next]_vars
  BY SystemStepsOfClient DEF SystemInv, DeliveryInv, IdInv
<1>1. ASSUME Quiet, asked' = asked PROVE [DeliveryNext]_deliveryVars
  BY <1>0, <1>1, QuietIsNotRecorded DEF DeliveryNext, deliveryVars
<1>2. CASE ClientAlone
  <2>1. ASSUME \E c \in Calls :
                  \/ TakeId(c) \/ Register(c)
                  \/ Refuse(c) \/ RefuseOversized(c) \/ BeginSend(c)
                  \/ FailSend(c) \/ Receive(c) \/ Timeout(c) \/ Cancel(c)
        PROVE  Quiet
    <3> toServer' = toServer
      BY <2>1 DEF TakeId, Register, Refuse, RefuseOversized, BeginSend,
                  FailSend, Receive, Timeout, Cancel, Return, networkVars
    <3> QED
      BY KeptOrLostIsQuiet
  <2>2. ASSUME \/ \E p \in Connects :
                     \/ ConnectStep(p)
                     \/ HandlerTake(p) \/ HandlerEnd(p) \/ HandlerPutBack(p)
               \/ \E x \in Closes : CloseStep(x)
               \/ DropClient
        PROVE  Quiet
    BY <1>0, <2>2, TaskQuiet DEF HandlerStep
  <2>3. ASSUME \E p \in Connects : ConnectionLost(p) PROVE Quiet
    BY <1>0, <2>3, EnvironmentQuiet DEF Environment
  <2> QED
    BY <1>1, <1>2, <2>1, <2>2, <2>3 DEF ClientAlone
<1>3. ASSUME NEW c \in Calls, Ask(c) PROVE DeliveryNext
  BY <1>3 DEF Ask, DeliveryNext, Next, CallStep, CallProgress
<1>4. ASSUME NEW h \in Connects, Dispatch(h) PROVE Quiet /\ asked' = asked
  BY <1>0, <1>4, TaskQuiet DEF Dispatch, HandlerStep
<1>5. ASSUME NEW s \in Connects,
             \/ Accept(s) \/ TakeUp(s) \/ LookUp(s) \/ Serve(s)
             \/ Respond(s) \/ EndSession(s)
      PROVE  Quiet /\ asked' = asked
  <2>1. asked' = asked /\ (Environment \/ UNCHANGED vars)
    BY <1>5 DEF Accept, TakeUp, LookUp, Serve, Respond, EndSession,
                Environment
  <2> QED
    BY <1>0, <2>1, EnvironmentQuiet, TaskQuiet
<1>6. ASSUME \/ Rest \/ UNCHANGED systemVars
             \/ \E r \in Registrars : RegisterService(r)
      PROVE  UNCHANGED deliveryVars
  BY <1>6 DEF Rest, systemVars, deliveryVars, RegisterService
<1> QED
  BY <1>1, <1>2, <1>3, <1>4, <1>5, <1>6 DEF SystemNext

-----------------------------------------------------------------------------
(* The two instances of Server are one.                                    *)

\* What Server assumes of its constants.
LEMMA ServerFacts ==
    /\ NameOf \in [Registrars -> Names]
    /\ Connects \subseteq Connects
    /\ Registrars \cap Connects = {}
    /\ EveryCall \in [Connects -> Nat]
    /\ Window \in Nat \ {0}
    /\ {Malformed, Undecodable} \cap Names = {} /\ Malformed # Undecodable
    /\ NoOne \notin Registrars
<1> Cardinality(Calls) \in Nat
  BY ClientAssumption, FS_CardinalityType
<1> QED
  BY SystemAssumption, ClientAssumption DEF EveryCall

LEMMA SameInit == S!Init => SP!Init
  BY DEF S!Init, SP!Init

LEMMA ServerInvInit == SP!Init => SP!Inv
  BY ServerFacts, SP!InvInit

LEMMA ServerInvStep == SP!Inv /\ [SP!Next]_SP!vars => SP!Inv'
  BY ServerFacts, SP!InvStep

\* Each step of the server by both its names.
LEMMA SameSessionSteps ==
    ASSUME NEW s \in Connects
    PROVE  /\ S!AcceptStream(s)     => SP!SessionStep(s)
           /\ S!AcceptFail(s)       => SP!SessionStep(s)
           /\ S!EndOfStream(s)      => SP!SessionStep(s)
           /\ S!ReceiveGarbage(s)   => SP!SessionStep(s)
           /\ S!ReceiveMalformed(s) => SP!SessionStep(s)
           /\ S!Receive(s)          => SP!SessionStep(s)
           /\ S!Found(s)            => SP!SessionStep(s)
           /\ S!NotFound(s)         => SP!SessionStep(s)
           /\ S!CallDone(s)         => SP!SessionStep(s)
           /\ S!CallPanics(s)       => SP!SessionStep(s)
           /\ S!Reply(s)            => SP!SessionStep(s)
           /\ S!ReplyFails(s)       => SP!SessionStep(s)
           /\ S!ReplyTooLong(s)     => SP!SessionStep(s)
<1> USE DEF S!registryVars, S!clientVars, SP!registryVars, SP!clientVars
<1>1. S!AcceptStream(s) => SP!AcceptStream(s)
  BY DEF S!AcceptStream, SP!AcceptStream
<1>2. S!End(s) => SP!End(s)
  BY DEF S!End, SP!End
<1>3. S!AcceptFail(s) => SP!AcceptFail(s)
  BY <1>2 DEF S!AcceptFail, SP!AcceptFail
<1>4. S!EndOfStream(s) => SP!EndOfStream(s)
  BY <1>2 DEF S!EndOfStream, SP!EndOfStream
<1>5. S!CallPanics(s) => SP!CallPanics(s)
  BY <1>2 DEF S!CallPanics, SP!CallPanics
<1>6. S!ReplyFails(s) => SP!ReplyFails(s)
  BY <1>2 DEF S!ReplyFails, SP!ReplyFails
<1>7. S!ReplyTooLong(s) => SP!ReplyTooLong(s)
  BY <1>2 DEF S!ReplyTooLong, SP!ReplyTooLong
<1>8. /\ S!Receivable(s) => SP!Receivable(s)
      /\ S!Take(s) => SP!Take(s)
      /\ S!Incoming(s) = SP!Incoming(s)
      /\ S!Wanted(s) = SP!Wanted(s)
  BY DEF S!Receivable, SP!Receivable, S!Take, SP!Take, S!Incoming, SP!Incoming,
         S!Wanted, SP!Wanted
<1>9. S!ReceiveGarbage(s) => SP!ReceiveGarbage(s)
  BY <1>8 DEF S!ReceiveGarbage, SP!ReceiveGarbage
<1>10. S!ReceiveMalformed(s) => SP!ReceiveMalformed(s)
  BY <1>8 DEF S!ReceiveMalformed, SP!ReceiveMalformed
<1>11. S!Receive(s) => SP!Receive(s)
  BY <1>8 DEF S!Receive, SP!Receive
<1>12. S!Found(s) => SP!Found(s)
  BY <1>8 DEF S!Found, SP!Found
<1>13. S!NotFound(s) => SP!NotFound(s)
  BY <1>8 DEF S!NotFound, SP!NotFound
<1>14. S!CallDone(s) => SP!CallDone(s)
  BY DEF S!CallDone, SP!CallDone
<1>15. S!Reply(s) => SP!Reply(s)
  BY DEF S!Reply, SP!Reply
<1> QED
  BY <1>1, <1>3, <1>4, <1>5, <1>6, <1>7, <1>9, <1>10, <1>11, <1>12, <1>13,
     <1>14, <1>15
  DEF SP!SessionStep, SP!SessionProgress

LEMMA SameRegisterStep ==
    ASSUME NEW r \in Registrars, S!RegisterStep(r) PROVE SP!RegisterStep(r)
  BY DEF S!RegisterStep, S!RequestWrite, S!Insert, S!registryVars,
         S!sessionVars, S!clientVars, SP!RegisterStep, SP!RequestWrite,
         SP!Insert, SP!registryVars, SP!sessionVars, SP!clientVars

-----------------------------------------------------------------------------
(* The system is a Server.                                                 *)

\* How the server sees a stream in each of its states.
LEMMA SeenNow ==
    ASSUME NEW s
    PROVE  /\ stream[s] = "none" => SeenByServer(s) = "none"
           /\ stream[s] \in {"open", "ended"} => SeenByServer(s) = "open"
           /\ stream[s] = "finished" => SeenByServer(s) = "finished"
           /\ stream[s] = "down" => SeenByServer(s) = "broken"
  BY DEF SeenByServer

LEMMA SeenNext ==
    ASSUME NEW s
    PROVE  /\ stream'[s] = "none" => SeenByServer(s)' = "none"
           /\ stream'[s] \in {"open", "ended"} => SeenByServer(s)' = "open"
           /\ stream'[s] = "finished" => SeenByServer(s)' = "finished"
           /\ stream'[s] = "down" => SeenByServer(s)' = "broken"
           /\ stream'[s] = stream[s] => SeenByServer(s)' = SeenByServer(s)
  BY DEF SeenByServer

\* What a step of the client alone does to the streams.
StreamsMove ==
    /\ \A p \in Connects : connectPc'[p] = "idle" => connectPc[p] = "idle"
    /\ \/ UNCHANGED <<stream, toClient>>
       \/ \E p \in Connects :
             /\ connectPc[p] = "idle" /\ connectPc'[p] # "idle"
             /\ stream' = [stream EXCEPT ![p] = "open"]
             /\ UNCHANGED toClient
       \/ \E s \in Connects : connectPc[s] # "idle" /\ Release(s)
       \/ \E Lost \in SUBSET Connects :
             (\A s \in Lost : connectPc[s] # "idle") /\ TakeDown(Lost)

LEMMA ClientAloneStreams ==
    ASSUME SystemInv, ClientAlone
    PROVE  UNCHANGED <<method, asked, serverVars, execution>> /\ StreamsMove
<1> USE DEF networkVars
<1>0. TypeInv /\ StoredAreOpened /\ Linked
  BY DEF SystemInv, IdInv
<1>1. CASE \E c \in Calls :
              \/ TakeId(c) \/ Register(c)
              \/ Refuse(c) \/ RefuseOversized(c) \/ BeginSend(c) \/ FailSend(c)
              \/ Receive(c) \/ Timeout(c) \/ Cancel(c)
  <2> UNCHANGED <<stream, toClient, connectPc>>
    BY <1>1 DEF TakeId, Register, Refuse, RefuseOversized, BeginSend, FailSend,
                Receive, Timeout, Cancel, Return, taskVars
  <2> QED
    BY DEF ClientAlone, StreamsMove
<1>2. CASE \E p \in Connects : ConnectStep(p)
  <2>1. PICK p \in Connects : ConnectStep(p)
    BY <1>2
  <2>2. \A q \in Connects : connectPc'[q] = "idle" => connectPc[q] = "idle"
    BY <1>0, <2>1 DEF ConnectStep, ConnectOpen, ConnectFail, ConnectSession,
                      ConnectStream, TypeInv, TypeOK
  <2>3. CASE ConnectOpen(p)
    BY <1>0, <2>2, <2>3
    DEF ConnectOpen, ClientAlone, StreamsMove, TypeInv, TypeOK
  <2>4. CASE ConnectStream(p)
    <3> UNCHANGED <<stream, toClient>>
        \/ \E s \in Connects : connectPc[s] # "idle" /\ Release(s)
      BY <1>0, <2>4 DEF ConnectStream, Release, StoredAreOpened
    <3> QED
      BY <2>2 DEF ClientAlone, StreamsMove
  <2>5. CASE ConnectFail(p) \/ ConnectSession(p)
    BY <2>2, <2>5 DEF ConnectFail, ConnectSession, ClientAlone, StreamsMove
  <2> QED
    BY <2>1, <2>3, <2>4, <2>5 DEF ConnectStep
<1>3. CASE \E p \in Connects : HandlerTake(p) \/ HandlerEnd(p)
                               \/ HandlerPutBack(p)
  <2>1. UNCHANGED connectPc
    BY <1>3 DEF HandlerTake, HandlerEnd, HandlerPutBack
  <2>2. UNCHANGED <<stream, toClient>>
        \/ \E s \in Connects : connectPc[s] # "idle" /\ Release(s)
    BY <1>0, <1>3 DEF HandlerTake, HandlerEnd, HandlerPutBack, Release,
                      StoredAreOpened
  <2> QED
    BY <2>1, <2>2 DEF ClientAlone, StreamsMove
<1>4. CASE \E p \in Connects : ConnectionLost(p)
  <2>1. PICK p \in Connects : ConnectionLost(p)
    BY <1>4
  <2>2. TakeDown({p}) /\ UNCHANGED connectPc /\ connectPc[p] # "idle"
    BY <1>0, <2>1 DEF ConnectionLost, taskVars, Linked, StreamLink
  <2> QED
    BY <2>2 DEF ClientAlone, StreamsMove
<1>5. CASE \E x \in Closes : CloseStep(x)
  <2>1. UNCHANGED connectPc
    BY <1>5 DEF CloseStep, CloseSession, CloseStream, ClosePending
  <2>2. CASE \E x \in Closes : CloseSession(x)
    <3>1. TakeDown({session} \ {NoOne})
      BY <2>2 DEF CloseSession
    <3>2. /\ {session} \ {NoOne} \in SUBSET Connects
          /\ \A s \in {session} \ {NoOne} : connectPc[s] # "idle"
      BY <1>0 DEF StoredAreOpened
    <3> QED
      BY <2>1, <3>1, <3>2 DEF ClientAlone, StreamsMove
  <2>3. CASE \E x \in Closes : CloseStream(x) \/ ClosePending(x)
    <3> UNCHANGED <<stream, toClient>>
        \/ \E s \in Connects : connectPc[s] # "idle" /\ Release(s)
      BY <1>0, <2>3 DEF CloseStream, ClosePending, Release, StoredAreOpened
    <3> QED
      BY <2>1 DEF ClientAlone, StreamsMove
  <2> QED
    BY <1>5, <2>2, <2>3 DEF CloseStep
<1>6. CASE DropClient
  <2>1. /\ TakeDown({s \in Connects : stream[s] # "none"})
        /\ UNCHANGED connectPc
    BY <1>6 DEF DropClient, taskVars
  <2>2. \A s \in Connects : stream[s] # "none" => connectPc[s] # "idle"
    BY <1>0 DEF Linked, StreamLink
  <2> QED
    BY <2>1, <2>2 DEF ClientAlone, StreamsMove
<1> QED
  BY <1>1, <1>2, <1>3, <1>4, <1>5, <1>6 DEF ClientAlone

\* A step of the client in which streams are lost, for the server.
LEMMA LostStreams ==
    ASSUME UNCHANGED <<method, asked, serverVars>>,
           NEW Lost \in SUBSET Connects,
           \A s \in Connects :
              SeenByServer(s)' = IF s \in Lost THEN "broken"
                                 ELSE SeenByServer(s)
    PROVE  [SP!Next]_SP!vars
<1>1. /\ UNCHANGED <<SP!registryVars, SP!sessionVars, MethodsSent, read>>
      /\ StreamsSeen' = [s \in Connects |-> IF s \in Lost THEN "broken"
                                            ELSE StreamsSeen[s]]
  BY DEF SP!registryVars, SP!sessionVars, serverVars, MethodsSent, MethodsOf,
         StreamsSeen
<1>2. CASE \E s \in Lost : StreamsSeen[s] # "broken"
  BY <1>1, <1>2 DEF SP!Next, SP!ClientStep, SP!Break
<1>3. CASE \A s \in Lost : StreamsSeen[s] = "broken"
  <2> StreamsSeen' = StreamsSeen
    BY <1>1, <1>3 DEF StreamsSeen
  <2> QED
    BY <1>1 DEF SP!vars, SP!clientVars
<1> QED
  BY <1>2, <1>3

LEMMA ClientAloneServer ==
    ASSUME SystemInv, ClientAlone PROVE [SP!Next]_SP!vars
<1>1. TypeInv /\ Linked
  BY DEF SystemInv, IdInv
<1>2. UNCHANGED <<method, asked, serverVars>>
  BY <1>1, ClientAloneStreams
<1>3. /\ UNCHANGED <<SP!registryVars, SP!sessionVars, MethodsSent, read>>
      /\ stream \in [Connects -> {"none", "open", "ended", "finished", "down"}]
  BY <1>1, <1>2 DEF SP!registryVars, SP!sessionVars, serverVars, MethodsSent,
                    MethodsOf, TypeInv, TypeOK
<1>4. CASE UNCHANGED stream
  <2> StreamsSeen' = StreamsSeen
    BY <1>4, SeenNext DEF StreamsSeen
  <2> QED
    BY <1>3 DEF SP!vars, SP!clientVars
<1>5. ASSUME NEW p \in Connects, connectPc[p] = "idle",
             stream' = [stream EXCEPT ![p] = "open"]
      PROVE  SP!Next
  <2>1. stream[p] = "none"
    BY <1>1, <1>5 DEF Linked, StreamLink
  <2>2. /\ StreamsSeen[p] = "none"
        /\ StreamsSeen' = [StreamsSeen EXCEPT ![p] = "open"]
    BY <1>3, <1>5, <2>1, SeenNow, SeenNext DEF StreamsSeen
  <2> QED
    BY <1>3, <2>2 DEF SP!Next, SP!ClientStep, SP!OpenStream
<1>6. ASSUME NEW s \in Connects, Release(s) PROVE [SP!Next]_SP!vars
  <2>0. s # NoOne
    BY ClientAssumption
  <2>1. stream' = [stream EXCEPT
                      ![s] = IF @ = "open" THEN "finished" ELSE "down"]
    BY <1>6, <2>0 DEF Release
  <2>2. CASE stream[s] = "open"
    <3> /\ StreamsSeen[s] = "open"
        /\ StreamsSeen' = [StreamsSeen EXCEPT ![s] = "finished"]
      BY <1>3, <2>1, <2>2, SeenNow, SeenNext DEF StreamsSeen
    <3> QED
      BY <1>3 DEF SP!Next, SP!ClientStep, SP!Finish
  <2>3. CASE stream[s] # "open"
    <3> \A t \in Connects :
            SeenByServer(t)' = IF t \in {s} THEN "broken" ELSE SeenByServer(t)
      BY <1>3, <2>1, <2>3, SeenNext
    <3> QED
      BY <1>2, LostStreams
  <2> QED
    BY <2>2, <2>3
<1>7. ASSUME NEW Lost \in SUBSET Connects, TakeDown(Lost)
      PROVE  [SP!Next]_SP!vars
  <2> \A t \in Connects :
          SeenByServer(t)' = IF t \in Lost THEN "broken" ELSE SeenByServer(t)
    BY <1>7, SeenNext DEF TakeDown
  <2> QED
    BY <1>2, LostStreams
<1> QED
  BY <1>4, <1>5, <1>6, <1>7, ClientAloneStreams DEF StreamsMove

\* A stream carries each request once, so that it carries fewer than there
\* are calls as long as one is missing.
LEMMA FewerAsked ==
    ASSUME NEW q \in Seq(Request), Single(q), NEW c \in Calls, ~ Carries(q, c)
    PROVE  Len(q) \in Nat /\ Len(q) < Cardinality(Calls)
<1> DEFINE f == [k \in 1 .. Len(q) |-> q[k].of]
           Others == Calls \ {c}
<1>1. Len(q) \in Nat /\ q \in [1 .. Len(q) -> Request]
  BY LenProperties
<1>2. f \in [1 .. Len(q) -> Others]
  BY <1>1 DEF Carries, Request
<1>3. \A j, k \in 1 .. Len(q) : f[j] = f[k] => j = k
  BY DEF Single
<1>4. /\ IsFiniteSet(1 .. Len(q)) /\ Cardinality(1 .. Len(q)) = Len(q)
  BY <1>1, FS_Interval
<1>5. /\ IsFiniteSet(Others) /\ Cardinality(Others) = Cardinality(Calls) - 1
      /\ Cardinality(Calls) \in Nat /\ Cardinality(Others) \in Nat
  BY ClientAssumption, FS_RemoveElement, FS_CardinalityType
<1> HIDE DEF f, Others
<1>6. ~ Cardinality(Others) < Cardinality(1 .. Len(q))
  BY <1>2, <1>3, <1>4, <1>5, FS_PigeonHole
<1> QED
  BY <1>1, <1>4, <1>5, <1>6

LEMMA MethodsOfType ==
    ASSUME NEW q \in Seq(Request), method \in [Calls -> S!Methods]
    PROVE  /\ MethodsOf(q) \in Seq(S!Methods)
           /\ Len(MethodsOf(q)) = Len(q) /\ Len(q) \in Nat
           /\ \A k \in 1 .. Len(q) : MethodsOf(q)[k] = method[q[k].of]
<1>1. Len(q) \in Nat /\ q \in [1 .. Len(q) -> Request]
  BY LenProperties
<1> QED
  BY <1>1 DEF MethodsOf, Request

LEMMA MethodsOfAppend ==
    ASSUME NEW q \in Seq(Request), NEW h \in Request,
           method \in [Calls -> S!Methods], UNCHANGED method
    PROVE  /\ method[h.of] \in S!Methods
           /\ MethodsOf(Append(q, h))' = Append(MethodsOf(q), method[h.of])
<1> DEFINE a == Append(q, h)
           n == Len(q)
           m == method[h.of]
           b == Append(MethodsOf(q), m)
<1>1. /\ n \in Nat /\ Len(a) = n + 1
      /\ \A i \in 1 .. n : a[i] = q[i]
      /\ a[n + 1] = h
  BY AppendProperties, LenProperties
<1>2. m \in S!Methods
  BY DEF Request
<1>3. /\ MethodsOf(q) \in Seq(S!Methods) /\ Len(MethodsOf(q)) = n
      /\ \A i \in 1 .. n : MethodsOf(q)[i] = method[q[i].of]
  BY MethodsOfType
<1>4. /\ b \in Seq(S!Methods) /\ Len(b) = n + 1
      /\ \A i \in 1 .. n : b[i] = method[q[i].of]
      /\ b[n + 1] = m
  <2> HIDE DEF m
  <2> QED
    BY <1>2, <1>3, AppendProperties
<1>5. MethodsOf(a)' = [k \in 1 .. n + 1 |-> method[a[k].of]]
  BY <1>1 DEF MethodsOf
<1> HIDE DEF a, b
<1>6. \A k \in 1 .. n + 1 : method[a[k].of] = b[k]
  BY <1>1, <1>4
<1>7. b = [k \in 1 .. n + 1 |-> b[k]]
  BY <1>4, LenProperties
<1> QED
  BY <1>2, <1>5, <1>6, <1>7 DEF a, b

\* Each request is asked once.
LEMMA AskedOnce ==
    ASSUME SystemInv
    PROVE  /\ \A s \in Connects : Single(asked[s])
           /\ \A s, t \in Connects : \A c \in Calls :
                 Carries(asked[s], c) /\ Carries(asked[t], c) => s = t
  BY DEF SystemInv, DeliveryInv, Delivered, OnePlace, OneStream, OnStream

\* The frame that Ask sends is that of a request not asked before, and of
\* the asking call itself if it empties the write buffer.
LEMMA AskFacts ==
    ASSUME SystemInv, NEW c \in Calls, Ask(c)
    PROVE  \E s \in Connects : \E h \in Request :
              /\ stream[s] = "open" /\ h.of \in Calls
              /\ \A t \in Connects : ~ Carries(asked[t], h.of)
              /\ asked' = [asked EXCEPT ![s] = Append(asked[s], h)]
              /\ \A d \in Calls : callPc'[d] # callPc[d] =>
                    /\ d = h.of /\ callPc[d] = "sending"
                    /\ callPc'[d] = "waiting"
              /\ UNCHANGED <<method, serverVars, execution, reqId, rx, result,
                             connectPc, stream, toClient>>
<1>1. LockInv /\ TypeInv /\ Delivered
  BY DEF SystemInv, DeliveryInv, LockInv
<1>2. PICK s \in Connects :
          /\ s = message_stream
          /\ asked' = [asked EXCEPT ![s] = Append(asked[s], Head(wbuf[s]))]
  BY <1>1, FlushRecorded DEF Ask
<1> DEFINE q == wbuf[s]
           h == Head(q)
<1>3. /\ q \in Seq(Request) /\ q # <<>> /\ Single(q) /\ h \in Request
      /\ h.of \in Calls
  <2>1. q \in Seq(Request) /\ q # <<>> /\ Single(q)
    BY <1>1, <1>2 DEF Ask, Flush, TypeInv, TypeOK, Delivered, OnePlace
  <2> HIDE DEF q
  <2>2. h \in Request
    BY <2>1, HeadTailProperties
  <2> QED
    BY <2>1, <2>2 DEF Request
<1>4. Carries(q, h.of)
  BY <1>3, CarriesTail
<1>5. /\ stream[s] = "open"
      /\ asked' = [asked EXCEPT ![s] = Append(asked[s], h)]
      /\ callPc[c] = "sending"
      /\ callPc' = [callPc EXCEPT ![c] = IF Len(q) = 1 THEN "waiting" ELSE @]
      /\ UNCHANGED <<method, serverVars, execution, reqId, rx, result,
                     connectPc, stream, toClient>>
  BY <1>2 DEF Ask, Flush, taskVars
<1>6. Len(q) = 1 => h.of = c
  <2>1. q[Len(q)].of = c
    BY <1>1, <1>2, <1>5 DEF LockInv, SenderHoldsStream
  <2>2. h = q[1]
    BY <1>3
  <2> QED
    BY <2>1, <2>2
<1> HIDE DEF q, h
<1>7. ASSUME NEW t \in Connects PROVE ~ Carries(asked[t], h.of)
  <2>1. CASE t = s
    BY <1>1, <1>3, <1>4, <2>1 DEF Delivered, OnePlace, q
  <2>2. CASE t # s
    BY <1>1, <1>3, <1>4, <2>2 DEF Delivered, OneStream, OnStream, q
  <2> QED
    BY <2>1, <2>2
<1>8. \A d \in Calls : callPc'[d] # callPc[d] =>
          d = h.of /\ callPc[d] = "sending" /\ callPc'[d] = "waiting"
  BY <1>1, <1>5, <1>6 DEF TypeInv, TypeOK
<1> QED
  BY <1>3, <1>5, <1>7, <1>8

\* The client reads the answer to the first request that it has no answer
\* to on this stream.
LEMMA DispatchFacts ==
    ASSUME SystemInv, NEW h \in Connects, Dispatch(h)
    PROVE  \E s \in Connects :
              LET m == toClient[s][1]
                  n == Len(toClient[s])
              IN  /\ stream[s] \in {"open", "ended", "down"}
                  /\ n \in Nat \ {0} /\ AnswerOnTheWay(s, 1)
                  /\ read[s] \in Nat /\ read[s] < Len(replies[s])
                  /\ read' = [read EXCEPT ![s] = read[s] + 1]
                  /\ toClient' = [toClient EXCEPT ![s] = Tail(toClient[s])]
                  /\ Len(toClient'[s]) = n - 1
                  /\ \A k \in 1 .. n - 1 : toClient'[s][k] = toClient[s][k + 1]
                  /\ rx' = [c \in Calls |->
                              IF pending[m.id] = c /\ Listening(c)
                              THEN Outcome(m.tag, m.of) ELSE rx[c]]
                  /\ UNCHANGED <<method, asked, services, readers, lockQueue,
                                 registerPc, order, sessionPc, taken, service,
                                 response, replies, floor, execution, callPc,
                                 reqId, result, connectPc, stream, wbuf>>
<1> DEFINE s == handlerStream[h]
           q == toClient[s]
           n == Len(q)
<1>1. /\ TypeInv /\ Linked /\ OnTheWay
      /\ read \in [Connects -> Nat]
  BY DEF SystemInv, IdInv, SP!Inv, SP!TypeOK
<1>2. s \in Connects /\ q # <<>> /\ q \in Seq(Response \cup {Garbage})
  BY <1>1 DEF Dispatch, HandlerDispatch, TypeInv, TypeOK, HandlerHasStream
<1>3. /\ n \in Nat \ {0} /\ Len(Tail(q)) = n - 1 /\ Head(q) = q[1]
      /\ \A k \in 1 .. n - 1 : Tail(q)[k] = q[k + 1]
  <2> HIDE DEF q
  <2> QED
    BY <1>2, ServerFacts, SP!TailElements
<1>4. AnswerOnTheWay(s, 1)
  BY <1>1, <1>2, <1>3 DEF OnTheWay
<1>5. /\ stream[s] \in {"open", "ended", "down"}
      /\ read[s] + n <= Len(replies[s])
      /\ read[s] \in Nat /\ Len(replies[s]) \in Nat
  BY <1>1, <1>2, LenProperties DEF Linked, StreamLink, SystemInv, SP!Inv,
     SP!TypeOK
<1>6. read[s] < Len(replies[s])
  <2> HIDE DEF n
  <2> QED
    BY <1>3, <1>5
<1>7. /\ read' = [read EXCEPT ![s] = read[s] + 1]
      /\ toClient' = [toClient EXCEPT ![s] = Tail(q)]
      /\ rx' = [c \in Calls |-> IF pending[q[1].id] = c /\ Listening(c)
                                THEN Outcome(q[1].tag, q[1].of) ELSE rx[c]]
      /\ UNCHANGED <<method, asked, services, readers, lockQueue,
                     registerPc, order, sessionPc, taken, service,
                     response, replies, floor, execution, callPc,
                     reqId, result, connectPc, stream, wbuf>>
  BY <1>3 DEF Dispatch, HandlerDispatch, taskVars
<1>8. toClient'[s] = Tail(q)
  BY <1>1, <1>2, <1>7 DEF TypeInv, TypeOK
<1> QED
  BY <1>2, <1>3, <1>4, <1>5, <1>6, <1>7, <1>8

LEMMA ClientServer ==
    ASSUME SystemInv,
           \/ \E c \in Calls : Ask(c)
           \/ \E h \in Connects : Dispatch(h)
    PROVE  SP!Next
<1>1. SystemType
  BY DEF SystemInv
<1>2. ASSUME NEW c \in Calls, Ask(c) PROVE SP!Next
  <2>1. PICK s \in Connects : \E h \in Request :
            /\ stream[s] = "open" /\ h.of \in Calls
            /\ \A t \in Connects : ~ Carries(asked[t], h.of)
            /\ asked' = [asked EXCEPT ![s] = Append(asked[s], h)]
            /\ UNCHANGED <<method, serverVars, stream>>
    BY <1>2, AskFacts
  <2>2. PICK h \in Request :
            /\ stream[s] = "open" /\ h.of \in Calls
            /\ ~ Carries(asked[s], h.of)
            /\ asked' = [asked EXCEPT ![s] = Append(asked[s], h)]
            /\ UNCHANGED <<method, serverVars, stream>>
    BY <2>1
  <2>3. PICK q \in Seq(Request) : q = asked[s] /\ Single(q)
    BY <1>1, AskedOnce DEF SystemType
  <2>4. Len(q) < Cardinality(Calls)
    BY <2>2, <2>3, FewerAsked
  <2>5. /\ method[h.of] \in S!Methods
        /\ MethodsOf(Append(q, h))' = Append(MethodsOf(q), method[h.of])
    BY <1>1, <2>2, MethodsOfAppend DEF SystemType
  <2>6. asked'[s] = Append(q, h)
        /\ \A t \in Connects \ {s} : asked'[t] = asked[t]
    BY <1>1, <2>2, <2>3 DEF SystemType
  <2>7. MethodsOf(asked[s])' = Append(MethodsOf(asked[s]), method[h.of])
    BY <2>3, <2>5, <2>6 DEF MethodsOf
  <2>8. \A t \in Connects \ {s} : MethodsOf(asked[t])' = MethodsOf(asked[t])
    BY <2>2, <2>6 DEF MethodsOf
  <2>9. MethodsSent' = [MethodsSent EXCEPT ![s] = Append(@, method[h.of])]
    BY <2>7, <2>8 DEF MethodsSent
  <2>10. StreamsSeen[s] = "open" /\ StreamsSeen' = StreamsSeen
    BY <2>2, SeenNow, SeenNext DEF StreamsSeen
  <2>11. Len(MethodsSent[s]) < EveryCall[s]
    <3> Len(MethodsOf(q)) = Len(q)
      BY <1>1, MethodsOfType DEF SystemType
    <3> QED
      BY <2>3, <2>4 DEF MethodsSent, EveryCall
  <2>12. UNCHANGED <<SP!registryVars, SP!sessionVars, read>>
    BY <2>2 DEF serverVars, SP!registryVars, SP!sessionVars
  <2>13. method[h.of] \in SP!Methods
    BY <2>5 DEF S!Methods, SP!Methods
  <2> QED
    BY <2>9, <2>10, <2>11, <2>12, <2>13 DEF SP!Next, SP!ClientStep, SP!Send
<1>3. ASSUME NEW h \in Connects, Dispatch(h) PROVE SP!Next
  <2>1. PICK s \in Connects :
            /\ stream[s] \in {"open", "ended", "down"}
            /\ read[s] < Len(replies[s])
            /\ read' = [read EXCEPT ![s] = read[s] + 1]
            /\ UNCHANGED <<method, asked, services, readers, lockQueue,
                           registerPc, order, sessionPc, taken, service,
                           response, replies, floor, stream>>
    BY <1>3, DispatchFacts
  <2>2. UNCHANGED <<SP!registryVars, SP!sessionVars, MethodsSent>>
    BY <2>1 DEF SP!registryVars, SP!sessionVars, MethodsSent, MethodsOf
  <2>3. StreamsSeen[s] \in {"open", "broken"} /\ StreamsSeen' = StreamsSeen
    BY <2>1, SeenNow, SeenNext DEF StreamsSeen
  <2> QED
    BY <2>1, <2>2, <2>3 DEF SP!Next, SP!ClientStep, SP!Read
<1> QED
  BY <1>2, <1>3

LEMMA SystemStepsOfServer ==
    SystemInv /\ [SystemNext]_systemVars => [SP!Next]_SP!vars
<1>1. ASSUME NEW s \in Connects,
             \/ Accept(s) \/ TakeUp(s) \/ LookUp(s) \/ Serve(s)
             \/ Respond(s) \/ EndSession(s)
      PROVE  SP!Next
  BY <1>1, SameSessionSteps
  DEF Accept, TakeUp, LookUp, Serve, Respond, EndSession, SP!Next
<1>2. ASSUME NEW r \in Registrars, RegisterService(r) PROVE SP!Next
  BY <1>2, SameRegisterStep DEF RegisterService, SP!Next
<1>3. ASSUME Rest \/ UNCHANGED systemVars PROVE UNCHANGED SP!vars
  <2>1. UNCHANGED <<stream, method, asked, serverVars>>
    BY <1>3 DEF Rest, systemVars, deliveryVars, vars, networkVars
  <2>2. UNCHANGED <<SP!registryVars, SP!sessionVars, read>>
    BY <2>1 DEF serverVars, SP!registryVars, SP!sessionVars
  <2>3. MethodsSent' = MethodsSent
    BY <2>1 DEF MethodsSent, MethodsOf
  <2>4. StreamsSeen' = StreamsSeen
    BY <2>1, SeenNext DEF StreamsSeen
  <2> QED
    BY <2>2, <2>3, <2>4 DEF SP!vars, SP!clientVars
<1> QED
  BY <1>1, <1>2, <1>3, ClientAloneServer, ClientServer DEF SystemNext

-----------------------------------------------------------------------------
(* Where a session and its requests are.                                   *)

\* The part of the server's invariant that the proofs below use.
LEMMA SessionFacts ==
    ASSUME SystemInv, NEW s \in Connects
    PROVE  /\ taken[s] \in Nat /\ Len(asked[s]) \in Nat
           /\ Len(replies[s]) \in Nat /\ read[s] \in Nat
           /\ taken[s] <= Len(asked[s])
           /\ sessionPc[s] = "accepting" => Len(replies[s]) = 0
           /\ sessionPc[s] \in {"queued", "calling", "sending"} =>
                 Len(replies[s]) + 1 = taken[s]
           /\ sessionPc[s] = "sending" => response[s] \in SP!Tags
<1>1. SP!TypeOK /\ SP!RequestInHand(s) /\ SP!RepliesInOrder
  BY DEF SystemInv, SP!Inv, SP!InHand
<1>2. /\ Len(MethodsOf(asked[s])) = Len(asked[s]) /\ Len(asked[s]) \in Nat
      /\ MethodsSent[s] = MethodsOf(asked[s])
  BY MethodsOfType DEF SystemInv, SystemType, MethodsSent
<1>3. Len(replies[s]) \in Nat
  BY <1>1, LenProperties DEF SP!TypeOK
<1> QED
  BY <1>1, <1>2, <1>3
  DEF SP!TypeOK, SP!RequestInHand, SP!RepliesInOrder

LEMMA SessionTypes ==
    ASSUME SystemInv
    PROVE  /\ taken \in [Connects -> Nat] /\ read \in [Connects -> Nat]
           /\ sessionPc \in [Connects ->
                 {"accepting", "receiving", "queued", "calling", "sending",
                  "ended"}]
           /\ response \in [Connects -> SP!Tags \cup {"none"}]
           /\ replies \in [Connects -> Seq(SP!Response)]
  BY DEF SystemInv, SP!Inv, SP!TypeOK

\* Each request is at one place of one stream.
LEMMA OneAsker ==
    ASSUME SystemInv, NEW s \in Connects, NEW t \in Connects,
           NEW j \in 1 .. Len(asked[s]), NEW k \in 1 .. Len(asked[t])
    PROVE  /\ asked[s][j].of \in Calls
           /\ asked[s][j].of = asked[t][k].of => s = t /\ j = k
<1>1. asked[s][j] \in Request
  BY DEF SystemInv, SystemType
<1>2. asked[s][j].of \in Calls
  BY <1>1 DEF Request
<1> QED
  BY <1>1, <1>2, AskedOnce DEF Carries, Single

\* The request that a session takes next has not been taken up.
LEMMA NextIsNew ==
    ASSUME SystemInv, NEW s \in Connects, taken[s] < Len(asked[s])
    PROVE  /\ taken[s] + 1 \in 1 .. Len(asked[s])
           /\ NextOf(s).of \in Calls /\ execution[NextOf(s).of] = "none"
<1>1. taken[s] + 1 \in 1 .. Len(asked[s])
  BY SessionFacts
<1>2. NextOf(s).of \in Calls
  BY <1>1, OneAsker DEF NextOf
<1>3. ~ TakenUp(NextOf(s).of)
  <2> SUFFICES ASSUME NEW t \in Connects, NEW k \in 1 .. taken[t],
                      asked[t][k].of = asked[s][taken[s] + 1].of
               PROVE  FALSE
    BY DEF TakenUp, NextOf
  <2>1. k \in 1 .. Len(asked[t])
    BY SessionFacts
  <2>2. s = t /\ k = taken[s] + 1
    BY <1>1, <2>1, OneAsker
  <2> QED
    BY <2>2, SessionFacts
<1> QED
  BY <1>1, <1>2, <1>3 DEF SystemInv, Executing

\* The request that a session has in hand.
LEMMA HandIsAsked ==
    ASSUME SystemInv, NEW s \in Connects,
           sessionPc[s] \in {"queued", "calling", "sending"}
    PROVE  taken[s] \in 1 .. Len(asked[s]) /\ InHand(s).of \in Calls
<1>1. taken[s] \in 1 .. Len(asked[s])
  BY SessionFacts
<1> QED
  BY <1>1, OneAsker DEF InHand

-----------------------------------------------------------------------------
(* What a step of a session does to the system.                            *)

\* The execution of the request of c goes on.
ExecutionStep(c) ==
    \E how \in Executions :
        /\ \/ execution[c] = "none" /\ how \in {"rejected", "running"}
           \/ /\ execution[c] = "running"
              /\ how \in {"ok", "error", "timeout", "panicked"}
        /\ execution' = [execution EXCEPT ![c] = how]

\* Session s takes a step, and no other one.
OnlySession(s) ==
    /\ UNCHANGED <<method, asked, read, wbuf, callPc, reqId, rx, result,
                   connectPc>>
    /\ \A t \in Connects \ {s} :
          /\ sessionPc'[t] = sessionPc[t] /\ response'[t] = response[t]
          /\ taken'[t] = taken[t] /\ replies'[t] = replies[t]
          /\ stream'[t] = stream[t] /\ toClient'[t] = toClient[t]

\* It goes on with the request it has in hand afterwards.
HandMoves(s) ==
    /\ sessionPc[s] # "ended" /\ stream[s] # "none"
    /\ taken'[s] \in {taken[s], taken[s] + 1} /\ taken'[s] <= Len(asked[s])
    /\ \/ UNCHANGED execution
       \/ taken'[s] > 0 /\ ExecutionStep(asked[s][taken'[s]].of)
    /\ InHandExecution(s)'

\* Its end of the stream: left alone, dropped, or written to.
EndMoves(s) ==
    \/ UNCHANGED <<stream, toClient, replies>>
    \/ /\ stream[s] = "open" /\ stream' = [stream EXCEPT ![s] = "ended"]
       /\ sessionPc'[s] = "ended" /\ UNCHANGED <<toClient, replies>>
    \/ /\ sessionPc[s] = "sending" /\ UNCHANGED <<stream, taken, execution>>
       /\ Len(replies'[s]) = Len(replies[s]) + 1
       /\ IF stream[s] = "open"
          THEN toClient' = [toClient EXCEPT
                                ![s] = Append(toClient[s], Answer(s))]
          ELSE UNCHANGED toClient

SessionMoves(s) == OnlySession(s) /\ HandMoves(s) /\ EndMoves(s)

\* A session that goes on has accepted a stream, or is about to.
LEMMA StreamThere ==
    ASSUME SystemInv, NEW s \in Connects,
           sessionPc[s] # "accepting" \/ StreamsSeen[s] # "none"
    PROVE  stream[s] # "none"
  BY SeenNow DEF SystemInv, Linked, StreamLink, StreamsSeen

LEMMA AcceptMoves ==
    ASSUME SystemInv, NEW s \in Connects, Accept(s) PROVE SessionMoves(s)
<1>1. /\ sessionPc[s] = "accepting" /\ StreamsSeen[s] # "none"
      /\ sessionPc' = [sessionPc EXCEPT ![s] = "receiving"]
      /\ UNCHANGED <<vars, method, asked, execution, read, taken, response,
                     replies>>
  BY DEF Accept, S!AcceptStream, S!clientVars
<1>2. UNCHANGED <<stream, toClient, wbuf, callPc, reqId, rx, result,
                  connectPc>>
  BY <1>1 DEF vars, networkVars, callVars, taskVars
<1>3. sessionPc'[s] = "receiving"
      /\ \A t \in Connects \ {s} : sessionPc'[t] = sessionPc[t]
  BY <1>1, SessionTypes
<1>4. OnlySession(s) /\ EndMoves(s)
  BY <1>1, <1>2, <1>3 DEF OnlySession, EndMoves
<1>5. HandMoves(s)
  BY <1>1, <1>3, StreamThere, SessionFacts DEF HandMoves, InHandExecution
<1> QED
  BY <1>4, <1>5 DEF SessionMoves

LEMMA TakeUpMoves ==
    ASSUME SystemInv, NEW s \in Connects, TakeUp(s) PROVE SessionMoves(s)
<1>1. UNCHANGED <<method, asked, wbuf, callPc, reqId, rx, result, connectPc,
                  stream, toClient>>
  BY DEF TakeUp, PeerRead, callVars, taskVars
<1>2. /\ sessionPc[s] = "receiving" /\ taken[s] < Len(MethodsSent[s])
      /\ taken' = [taken EXCEPT ![s] = @ + 1]
      /\ UNCHANGED <<read, replies>>
      /\ \/ /\ sessionPc' = [sessionPc EXCEPT ![s] = "queued"]
            /\ UNCHANGED <<execution, response>>
         \/ /\ sessionPc' = [sessionPc EXCEPT ![s] = "sending"]
            /\ response' = [response EXCEPT ![s] = "invalid"]
            /\ Executed(NextOf(s).of, "rejected")
  BY DEF TakeUp, S!Receive, S!ReceiveMalformed, S!Receivable, S!Take,
         S!clientVars
<1>3. taken[s] < Len(asked[s])
  BY <1>2, MethodsOfType DEF SystemInv, SystemType, MethodsSent
<1>4. /\ taken'[s] = taken[s] + 1 /\ taken[s] + 1 \in 1 .. Len(asked[s])
      /\ NextOf(s).of \in Calls /\ execution[NextOf(s).of] = "none"
      /\ NextOf(s) = asked[s][taken'[s]] /\ InHand(s)' = NextOf(s)
  BY <1>1, <1>2, <1>3, NextIsNew, SessionTypes DEF NextOf, InHand
<1>5. OnlySession(s) /\ EndMoves(s)
  BY <1>1, <1>2, SessionTypes DEF OnlySession, EndMoves
<1>6. stream[s] # "none"
  BY <1>2, StreamThere
<1>7. CASE /\ sessionPc' = [sessionPc EXCEPT ![s] = "queued"]
           /\ UNCHANGED <<execution, response>>
  <2> sessionPc'[s] = "queued"
    BY <1>7, SessionTypes
  <2> InHandExecution(s)'
    BY <1>4, <1>7 DEF InHandExecution
  <2> QED
    BY <1>2, <1>4, <1>5, <1>6, <1>7 DEF SessionMoves, HandMoves
<1>8. CASE /\ sessionPc' = [sessionPc EXCEPT ![s] = "sending"]
           /\ response' = [response EXCEPT ![s] = "invalid"]
           /\ Executed(NextOf(s).of, "rejected")
  <2>1. sessionPc'[s] = "sending" /\ response'[s] = "invalid"
    BY <1>8, SessionTypes
  <2>2. execution' = [execution EXCEPT ![NextOf(s).of] = "rejected"]
    BY <1>8 DEF Executed
  <2>3. execution'[NextOf(s).of] = "rejected"
    BY <1>4, <2>2 DEF SystemInv, SystemType
  <2>4. InHandExecution(s)'
    BY <1>4, <2>1, <2>3 DEF InHandExecution
  <2>5. ExecutionStep(NextOf(s).of)
    BY <1>4, <2>2 DEF ExecutionStep, Executions
  <2> QED
    BY <1>2, <1>4, <1>5, <1>6, <2>4, <2>5 DEF SessionMoves, HandMoves
<1> QED
  BY <1>2, <1>7, <1>8

LEMMA LookUpMoves ==
    ASSUME SystemInv, NEW s \in Connects, LookUp(s) PROVE SessionMoves(s)
<1>1. /\ lockQueue # <<>> /\ Head(lockQueue) = s
      /\ UNCHANGED <<vars, method, asked, read, taken, replies>>
      /\ \/ /\ sessionPc' = [sessionPc EXCEPT ![s] = "calling"]
            /\ UNCHANGED response /\ Executed(InHand(s).of, "running")
         \/ /\ sessionPc' = [sessionPc EXCEPT ![s] = "sending"]
            /\ response' = [response EXCEPT ![s] = "not_found"]
            /\ Executed(InHand(s).of, "rejected")
  BY DEF LookUp, S!Found, S!NotFound, S!clientVars
<1>2. UNCHANGED <<stream, toClient, wbuf, callPc, reqId, rx, result,
                  connectPc>>
  BY <1>1 DEF vars, networkVars, callVars, taskVars
<1>3. sessionPc[s] = "queued"
  <2> SP!Inv
    BY DEF SystemInv
  <2> QED
    BY <1>1, ServerFacts, SP!HeadFacts
<1>4. /\ taken[s] \in 1 .. Len(asked[s]) /\ InHand(s).of \in Calls
      /\ execution[InHand(s).of] = "none"
      /\ taken'[s] = taken[s] /\ InHand(s)' = InHand(s)
      /\ InHand(s) = asked[s][taken'[s]]
  BY <1>1, <1>3, HandIsAsked DEF SystemInv, Executing, InHandExecution, InHand
<1>5. OnlySession(s) /\ EndMoves(s)
  BY <1>1, <1>2, SessionTypes DEF OnlySession, EndMoves
<1>6. stream[s] # "none"
  BY <1>3, StreamThere
<1>7. PICK how \in {"running", "rejected"} :
          /\ execution' = [execution EXCEPT ![InHand(s).of] = how]
          /\ \/ how = "running" /\ sessionPc'[s] = "calling"
             \/ /\ how = "rejected" /\ sessionPc'[s] = "sending"
                /\ response'[s] = "not_found"
  BY <1>1, SessionTypes DEF Executed
<1>8. execution'[InHand(s).of] = how
  BY <1>4, <1>7 DEF SystemInv, SystemType
<1>9. InHandExecution(s)'
  BY <1>4, <1>7, <1>8 DEF InHandExecution
<1>10. ExecutionStep(InHand(s).of)
  BY <1>4, <1>7 DEF ExecutionStep, Executions
<1> QED
  BY <1>3, <1>4, <1>5, <1>6, <1>9, <1>10 DEF SessionMoves, HandMoves

LEMMA ServeMoves ==
    ASSUME SystemInv, NEW s \in Connects, Serve(s) PROVE SessionMoves(s)
<1>1. PICK how \in {"ok", "error", "timeout"} :
          /\ sessionPc[s] = "calling"
          /\ sessionPc' = [sessionPc EXCEPT ![s] = "sending"]
          /\ response' = [response EXCEPT ![s] = how]
          /\ UNCHANGED <<vars, method, asked, read, taken, replies>>
          /\ Executed(InHand(s).of, response'[s])
  BY DEF Serve, S!CallDone, S!clientVars
<1>2. UNCHANGED <<stream, toClient, wbuf, callPc, reqId, rx, result,
                  connectPc>>
  BY <1>1 DEF vars, networkVars, callVars, taskVars
<1>3. sessionPc'[s] = "sending" /\ response'[s] = how
  BY <1>1, SessionTypes
<1>4. /\ taken[s] \in 1 .. Len(asked[s]) /\ InHand(s).of \in Calls
      /\ execution[InHand(s).of] = "running"
      /\ taken'[s] = taken[s] /\ InHand(s)' = InHand(s)
      /\ InHand(s) = asked[s][taken'[s]]
  BY <1>1, HandIsAsked DEF SystemInv, Executing, InHandExecution, InHand
<1>5. OnlySession(s) /\ EndMoves(s)
  BY <1>1, <1>2, SessionTypes DEF OnlySession, EndMoves
<1>6. stream[s] # "none"
  BY <1>1, StreamThere
<1>7. execution' = [execution EXCEPT ![InHand(s).of] = how]
  BY <1>1, <1>3 DEF Executed
<1>8. execution'[InHand(s).of] = how
  BY <1>4, <1>7 DEF SystemInv, SystemType
<1>9. InHandExecution(s)'
  BY <1>3, <1>4, <1>8 DEF InHandExecution
<1>10. ExecutionStep(InHand(s).of)
  BY <1>4, <1>7 DEF ExecutionStep, Executions
<1> QED
  BY <1>1, <1>4, <1>5, <1>6, <1>9, <1>10 DEF SessionMoves, HandMoves

LEMMA RespondMoves ==
    ASSUME SystemInv, NEW s \in Connects, Respond(s) PROVE SessionMoves(s)
<1>1. /\ sessionPc[s] = "sending"
      /\ sessionPc' = [sessionPc EXCEPT ![s] = "receiving"]
      /\ response' = [response EXCEPT ![s] = "none"]
      /\ replies' = [replies EXCEPT
              ![s] = Append(@, [id |-> taken[s], tag |-> response[s]])]
      /\ UNCHANGED <<method, asked, read, taken, execution>>
  BY DEF Respond, S!Reply, S!clientVars
<1>2. sessionPc'[s] = "receiving"
  BY <1>1, SessionTypes
<1>3. /\ UNCHANGED <<stream, wbuf, callPc, reqId, rx, result, connectPc>>
      /\ \A t \in Connects \ {s} : toClient'[t] = toClient[t]
      /\ IF stream[s] = "open"
         THEN toClient' = [toClient EXCEPT
                               ![s] = Append(toClient[s], Answer(s))]
         ELSE UNCHANGED toClient
  <2>1. CASE stream[s] = "open"
    <3>1. /\ UNCHANGED <<stream, wbuf, callPc, reqId, rx, result, connectPc>>
          /\ \E m : toClient' = [toClient EXCEPT ![s] = Append(@, m)]
          /\ toClient'[s] = Append(toClient[s], Answer(s))
      BY <2>1 DEF Respond, PeerReply, callVars, taskVars
    <3>2. toClient \in [Connects -> Seq(Response \cup {Garbage})]
      BY DEF SystemInv, IdInv, TypeInv, TypeOK
    <3>3. toClient' = [toClient EXCEPT ![s] = toClient'[s]]
      BY <3>1, <3>2
    <3> QED
      BY <2>1, <3>1, <3>2, <3>3
  <2>2. CASE stream[s] # "open"
    BY <2>2 DEF Respond, vars, networkVars, callVars, taskVars
  <2> QED
    BY <2>1, <2>2
<1>4. Len(replies'[s]) = Len(replies[s]) + 1
  <2>1. /\ replies'[s] = Append(replies[s],
                                [id |-> taken[s], tag |-> response[s]])
        /\ replies[s] \in Seq(SP!Response)
    BY <1>1, SessionTypes
  <2>2. [id |-> taken[s], tag |-> response[s]] \in SP!Response
    BY <1>1, SessionFacts DEF SP!Response
  <2> QED
    BY <2>1, <2>2, AppendProperties
<1>5. OnlySession(s)
  BY <1>1, <1>3, SessionTypes DEF OnlySession
<1>6. EndMoves(s)
  BY <1>1, <1>3, <1>4 DEF EndMoves
<1>7. HandMoves(s)
  BY <1>1, <1>2, StreamThere, SessionFacts DEF HandMoves, InHandExecution
<1> QED
  BY <1>5, <1>6, <1>7 DEF SessionMoves

LEMMA EndSessionMoves ==
    ASSUME SystemInv, NEW s \in Connects, EndSession(s) PROVE SessionMoves(s)
<1>1. /\ UNCHANGED <<method, asked, read, replies>>
      /\ sessionPc' = [sessionPc EXCEPT ![s] = "ended"]
      /\ \A t \in Connects \ {s} : response'[t] = response[t]
  BY SessionTypes
  DEF EndSession, S!AcceptFail, S!EndOfStream, S!ReceiveGarbage, S!ReplyFails,
      S!ReplyTooLong, S!CallPanics, S!End, S!Take, S!clientVars
<1>2. /\ sessionPc'[s] = "ended"
      /\ \A t \in Connects \ {s} : sessionPc'[t] = sessionPc[t]
  BY <1>1, SessionTypes
<1>3. /\ UNCHANGED <<wbuf, callPc, reqId, rx, result, connectPc, toClient>>
      /\ \/ UNCHANGED stream
         \/ stream[s] = "open" /\ stream' = [stream EXCEPT ![s] = "ended"]
  BY DEF EndSession, PeerEnds, vars, networkVars, callVars, taskVars
<1>4. \A t \in Connects \ {s} : stream'[t] = stream[t]
  BY <1>3 DEF SystemInv, IdInv, TypeInv, TypeOK
<1>5. /\ sessionPc[s] # "ended" /\ stream[s] # "none"
      /\ \/ UNCHANGED <<taken, execution>>
         \/ /\ UNCHANGED execution /\ taken[s] < Len(MethodsSent[s])
            /\ taken' = [taken EXCEPT ![s] = @ + 1]
         \/ /\ UNCHANGED taken /\ sessionPc[s] = "calling"
            /\ Executed(InHand(s).of, "panicked")
  <2>1. CASE S!AcceptFail(s)
    <3> sessionPc[s] = "accepting" /\ StreamsSeen[s] # "none"
      BY <2>1 DEF S!AcceptFail
    <3> QED
      BY <2>1, StreamThere DEF EndSession, S!AcceptFail, S!End, S!CallPanics
  <2>2. CASE S!EndOfStream(s) \/ S!ReplyFails(s) \/ S!ReplyTooLong(s)
    <3>1. sessionPc[s] \in {"receiving", "sending"} /\ UNCHANGED taken
      BY <2>2 DEF S!EndOfStream, S!ReplyFails, S!ReplyTooLong, S!End
    <3>2. stream[s] # "none"
      BY <3>1, StreamThere
    <3>3. UNCHANGED execution
      BY <3>1 DEF EndSession, S!CallPanics
    <3> QED
      BY <3>1, <3>2, <3>3
  <2>3. CASE S!ReceiveGarbage(s)
    <3>1. /\ sessionPc[s] = "receiving" /\ taken[s] < Len(MethodsSent[s])
          /\ taken' = [taken EXCEPT ![s] = @ + 1]
      BY <2>3 DEF S!ReceiveGarbage, S!Receivable, S!Take
    <3>2. stream[s] # "none"
      BY <3>1, StreamThere
    <3>3. UNCHANGED execution
      BY <3>1 DEF EndSession, S!CallPanics
    <3> QED
      BY <3>1, <3>2, <3>3
  <2>4. CASE S!CallPanics(s) /\ Executed(InHand(s).of, "panicked")
    <3>1. sessionPc[s] = "calling" /\ UNCHANGED taken
      BY <2>4 DEF S!CallPanics, S!End
    <3> QED
      BY <2>4, <3>1, StreamThere
  <2> QED
    BY <2>1, <2>2, <2>3, <2>4 DEF EndSession
<1>6. taken[s] < Len(MethodsSent[s]) => taken[s] < Len(asked[s])
  BY MethodsOfType DEF SystemInv, SystemType, MethodsSent
<1>7. /\ taken'[s] \in {taken[s], taken[s] + 1} /\ taken'[s] <= Len(asked[s])
      /\ \A t \in Connects \ {s} : taken'[t] = taken[t]
  BY <1>5, <1>6, SessionFacts, SessionTypes
<1>8. \/ UNCHANGED execution
      \/ taken'[s] > 0 /\ ExecutionStep(asked[s][taken'[s]].of)
  <2> SUFFICES ASSUME sessionPc[s] = "calling", UNCHANGED taken,
                      Executed(InHand(s).of, "panicked")
               PROVE  taken'[s] > 0 /\ ExecutionStep(asked[s][taken'[s]].of)
    BY <1>5
  <2>1. /\ taken[s] \in 1 .. Len(asked[s])
        /\ execution[InHand(s).of] = "running"
    BY HandIsAsked DEF SystemInv, Executing, InHandExecution
  <2>2. ExecutionStep(InHand(s).of)
    BY <2>1 DEF Executed, ExecutionStep, Executions
  <2> QED
    BY <2>1, <2>2, SessionFacts DEF InHand
<1>9. OnlySession(s)
  BY <1>1, <1>2, <1>3, <1>4, <1>7 DEF OnlySession
<1>10. EndMoves(s)
  BY <1>1, <1>2, <1>3 DEF EndMoves
<1>11. HandMoves(s)
  BY <1>2, <1>5, <1>7, <1>8 DEF HandMoves, InHandExecution
<1> QED
  BY <1>9, <1>10, <1>11 DEF SessionMoves

LEMMA SessionStepMoves ==
    ASSUME SystemInv, NEW s \in Connects,
           \/ Accept(s) \/ TakeUp(s) \/ LookUp(s) \/ Serve(s)
           \/ Respond(s) \/ EndSession(s)
    PROVE  SessionMoves(s)
  BY AcceptMoves, TakeUpMoves, LookUpMoves, ServeMoves, RespondMoves,
     EndSessionMoves

-----------------------------------------------------------------------------
(* The invariant, when a session takes a step.                             *)

\* Only an execution that has not ended goes on, so that what was allowed
\* as an answer stays allowed.
LEMMA AllowedStays ==
    ASSUME SystemInv,
           \/ UNCHANGED execution
           \/ \E c \in Calls : ExecutionStep(c)
    PROVE  \A d \in Calls : \A tag :
              Allowed(tag, execution[d]) => Allowed(tag, execution'[d])
<1>1. execution \in [Calls -> Executions]
  BY DEF SystemInv, SystemType
<1>2. ASSUME NEW c \in Calls, ExecutionStep(c), NEW d \in Calls, NEW tag,
             Allowed(tag, execution[d])
      PROVE  execution'[d] = execution[d]
  BY <1>1, <1>2 DEF ExecutionStep, Allowed
<1> QED
  BY <1>2

LEMMA SessionExecution ==
    ASSUME SystemInv, NEW s \in Connects, SessionMoves(s)
    PROVE  \/ UNCHANGED execution
           \/ /\ taken'[s] \in 1 .. Len(asked[s])
              /\ asked[s][taken'[s]].of \in Calls
              /\ ExecutionStep(asked[s][taken'[s]].of)
<1> SUFFICES ASSUME taken'[s] > 0 PROVE /\ taken'[s] \in 1 .. Len(asked[s])
                                        /\ asked[s][taken'[s]].of \in Calls
  BY DEF SessionMoves, HandMoves
<1>1. taken'[s] \in 1 .. Len(asked[s])
  BY SessionFacts DEF SessionMoves, HandMoves
<1> QED
  BY <1>1, OneAsker

LEMMA SessionTypeStep ==
    ASSUME SystemInv, NEW s \in Connects, SessionMoves(s) PROVE SystemType'
<1>1. UNCHANGED <<method, asked>>
  BY DEF SessionMoves, OnlySession
<1>2. execution' \in [Calls -> Executions]
  BY SessionExecution DEF SystemInv, SystemType, ExecutionStep
<1> QED
  BY <1>1, <1>2 DEF SystemInv, SystemType, S!Methods

LEMMA SessionLinked ==
    ASSUME SystemInv, NEW s \in Connects, SessionMoves(s) PROVE Linked'
<1> SUFFICES ASSUME NEW t \in Connects PROVE StreamLink(t)'
  BY DEF Linked
<1>1. StreamLink(t) /\ StreamLink(s)
  BY DEF SystemInv, Linked
<1>2. read'[t] = read[t] /\ connectPc'[t] = connectPc[t]
  BY DEF SessionMoves, OnlySession
<1>3. CASE t # s
  BY <1>1, <1>2, <1>3 DEF SessionMoves, OnlySession, StreamLink
<1>4. CASE t = s
  <2>1. /\ sessionPc[s] # "ended" /\ stream[s] # "none"
        /\ taken[s] <= taken'[s]
    BY SessionFacts DEF SessionMoves, HandMoves
  <2>2. /\ stream \in
              [Connects -> {"none", "open", "ended", "finished", "down"}]
        /\ toClient \in [Connects -> Seq(Response \cup {Garbage})]
    BY DEF SystemInv, IdInv, TypeInv, TypeOK
  <2>3. CASE UNCHANGED <<stream, toClient, replies>>
    <3>1. Len(replies[s]) <= taken'[s]
      BY <1>1, <2>1, SessionFacts DEF StreamLink, SessionMoves, HandMoves
    <3>2. stream[s] # "ended"
      BY <1>1, <2>1 DEF StreamLink
    <3> QED
      BY <1>1, <1>2, <1>4, <2>1, <2>3, <3>1, <3>2 DEF StreamLink
  <2>4. CASE /\ stream[s] = "open" /\ stream' = [stream EXCEPT ![s] = "ended"]
             /\ sessionPc'[s] = "ended" /\ UNCHANGED <<toClient, replies>>
    <3> stream'[s] = "ended"
      BY <2>2, <2>4
    <3> QED
      BY <1>1, <1>2, <1>4, <2>1, <2>4, SessionFacts DEF StreamLink,
         SessionMoves, HandMoves
  <2>5. CASE /\ sessionPc[s] = "sending"
             /\ UNCHANGED <<stream, taken, execution>>
             /\ Len(replies'[s]) = Len(replies[s]) + 1
             /\ IF stream[s] = "open"
                THEN toClient' = [toClient EXCEPT
                                      ![s] = Append(toClient[s], Answer(s))]
                ELSE UNCHANGED toClient
    <3>1. Len(replies'[s]) = Len(replies[s]) + 1 /\ taken'[s] = taken[s]
          /\ Len(replies[s]) + 1 = taken[s]
      BY <2>5, SessionFacts
    <3>2. CASE stream[s] = "open"
      <4>1. /\ toClient'[s] = Append(toClient[s], Answer(s))
            /\ toClient[s] \in Seq(Response \cup {Garbage})
        BY <2>2, <2>5, <3>2
      <4>2. Answer(s) \in Response
        <5>1. taken[s] \in 1 .. Len(asked[s]) /\ asked[s] \in Seq(Request)
          BY <2>5, HandIsAsked DEF SystemInv, SystemType
        <5>2. InHand(s) \in Request
          BY <5>1 DEF InHand
        <5> QED
          BY <5>2 DEF Answer, Request, Response
      <4>3. Len(toClient'[s]) = Len(toClient[s]) + 1
            /\ Len(toClient[s]) \in Nat
        BY <4>1, <4>2, AppendProperties, LenProperties
      <4>4. Len(replies[s]) = read[s] + Len(toClient[s])
        BY <1>1, <3>2 DEF StreamLink
      <4>5. /\ Len(replies'[s]) = read[s] + Len(toClient'[s])
            /\ read[s] <= Len(replies'[s]) /\ Len(replies'[s]) <= taken'[s]
        BY <3>1, <4>3, <4>4, SessionFacts
      <4>6. stream'[s] = "open" /\ connectPc[s] # "idle"
        BY <1>1, <2>5, <3>2 DEF StreamLink
      <4> QED
        BY <1>2, <1>4, <4>5, <4>6 DEF StreamLink
    <3>3. CASE stream[s] # "open"
      <4> stream[s] # "ended"
        BY <1>1, <2>1 DEF StreamLink
      <4> QED
        BY <1>1, <1>2, <1>4, <2>1, <2>5, <3>1, <3>3, SessionFacts
        DEF StreamLink
    <3> QED
      BY <3>2, <3>3
  <2> QED
    BY <2>3, <2>4, <2>5 DEF SessionMoves, EndMoves
<1> QED
  BY <1>3, <1>4

\* A response is an answer that the execution of its request allows.
LEMMA AnswerIsAllowed ==
    ASSUME SystemInv, NEW s \in Connects, sessionPc[s] = "sending"
    PROVE  /\ Answer(s) \in Response /\ Answer(s).of = asked[s][taken[s]].of
           /\ Allowed(Answer(s).tag, execution[Answer(s).of])
<1>1. taken[s] \in 1 .. Len(asked[s]) /\ asked[s] \in Seq(Request)
  BY HandIsAsked DEF SystemInv, SystemType
<1>2. InHand(s) \in Request
  BY <1>1 DEF InHand
<1>3. Answer(s) \in Response /\ Answer(s).of = InHand(s).of
  BY <1>2 DEF Answer, Request, Response
<1>4. execution[InHand(s).of] = IF response[s] \in {"invalid", "not_found"}
                                THEN "rejected" ELSE response[s]
  BY DEF SystemInv, Executing, InHandExecution
<1>5. response[s] \in {"ok", "error", "timeout", "invalid", "not_found"}
  BY SessionFacts DEF SP!Tags
<1>6. Answer(s).tag = IF response[s] = "ok" THEN "ok" ELSE "rpc_failed"
  BY DEF Answer
<1>7. Allowed(Answer(s).tag, execution[InHand(s).of])
  BY <1>4, <1>5, <1>6 DEF Allowed
<1> QED
  BY <1>3, <1>7 DEF InHand

LEMMA SessionOnTheWay ==
    ASSUME SystemInv, NEW s \in Connects, SessionMoves(s) PROVE OnTheWay'
<1> SUFFICES ASSUME NEW t \in Connects, NEW k \in 1 .. Len(toClient'[t])
             PROVE  AnswerOnTheWay(t, k)'
  BY DEF OnTheWay
<1>1. UNCHANGED <<asked, read>>
  BY DEF SessionMoves, OnlySession
<1>2. \A d \in Calls : \A tag :
          Allowed(tag, execution[d]) => Allowed(tag, execution'[d])
  BY SessionExecution, AllowedStays
<1>3. ASSUME k \in 1 .. Len(toClient[t]), toClient'[t][k] = toClient[t][k]
      PROVE  AnswerOnTheWay(t, k)'
  <2> AnswerOnTheWay(t, k)
    BY <1>3 DEF SystemInv, OnTheWay
  <2> QED
    BY <1>1, <1>2, <1>3 DEF AnswerOnTheWay, Response
<1>4. CASE toClient'[t] = toClient[t]
  BY <1>3, <1>4
<1>5. CASE toClient'[t] # toClient[t]
  <2>1. toClient \in [Connects -> Seq(Response \cup {Garbage})]
    BY DEF SystemInv, IdInv, TypeInv, TypeOK
  <2>2. /\ sessionPc[s] = "sending" /\ stream[s] = "open" /\ t = s
        /\ toClient'[s] = Append(toClient[s], Answer(s))
        /\ UNCHANGED execution
    BY <1>5, <2>1 DEF SessionMoves, OnlySession, EndMoves
  <2>3. Answer(s) \in Response /\ Answer(s).of = asked[s][taken[s]].of
        /\ Allowed(Answer(s).tag, execution[Answer(s).of])
    BY <2>2, AnswerIsAllowed
  <2> DEFINE n == Len(toClient[s])
  <2>4. /\ n \in Nat /\ Len(toClient'[s]) = n + 1
        /\ \A i \in 1 .. n : toClient'[s][i] = toClient[s][i]
        /\ toClient'[s][n + 1] = Answer(s)
    BY <2>1, <2>2, <2>3, AppendProperties, LenProperties
  <2>5. read[s] + (n + 1) = taken[s]
    <3>1. Len(replies[s]) = read[s] + n
      BY <2>2 DEF SystemInv, Linked, StreamLink
    <3>2. Len(replies[s]) + 1 = taken[s] /\ read[s] \in Nat
      BY <2>2, SessionFacts
    <3>3. n \in Nat
      BY <2>4
    <3> HIDE DEF n
    <3>4. \A a, b, c \in Nat : b = a + n /\ b + 1 = c => a + (n + 1) = c
      BY <3>3
    <3>5. Len(replies[s]) \in Nat /\ taken[s] \in Nat
      BY SessionFacts
    <3> QED
      BY <3>1, <3>2, <3>4, <3>5
  <2> HIDE DEF n
  <2>6. CASE k = n + 1
    <3>1. toClient'[t][k] = Answer(s) /\ read'[t] + k = taken[s]
      BY <1>1, <2>2, <2>4, <2>5, <2>6
    <3> QED
      BY <1>1, <2>2, <2>3, <3>1 DEF AnswerOnTheWay
  <2>7. CASE k # n + 1
    <3> k \in 1 .. n
      BY <2>2, <2>4, <2>7
    <3> QED
      BY <1>3, <2>2, <2>4 DEF n
  <2> QED
    BY <2>6, <2>7
<1> QED
  BY <1>4, <1>5

LEMMA SessionExecuting ==
    ASSUME SystemInv, NEW s \in Connects, SessionMoves(s) PROVE Executing'
<1>1. UNCHANGED asked /\ \A t \in Connects : taken[t] <= taken'[t]
  BY SessionFacts DEF SessionMoves, OnlySession, HandMoves
<1>2. \A t \in Connects : taken[t] \in Nat /\ taken'[t] \in Nat
  BY SessionFacts DEF SessionMoves, OnlySession, HandMoves
<1>3. \A c \in Calls : TakenUp(c) => TakenUp(c)'
  BY <1>1, <1>2 DEF TakenUp
<1>4. ASSUME NEW c \in Calls, ~ TakenUp(c)' PROVE execution'[c] = "none"
  <2>1. execution[c] = "none"
    BY <1>3, <1>4 DEF SystemInv, Executing
  <2>2. taken'[s] \in 1 .. Len(asked[s]) => c # asked[s][taken'[s]].of
    BY <1>1, <1>4, SessionFacts DEF TakenUp
  <2> QED
    BY <2>1, <2>2, SessionExecution DEF ExecutionStep, SystemInv, SystemType
<1>5. ASSUME NEW t \in Connects PROVE InHandExecution(t)'
  <2>1. CASE t = s
    BY <2>1 DEF SessionMoves, HandMoves
  <2>2. CASE t # s /\ sessionPc[t] \in {"queued", "calling", "sending"}
    <3>1. taken[t] \in 1 .. Len(asked[t]) /\ InHand(t).of \in Calls
      BY <2>2, HandIsAsked
    <3>2. /\ sessionPc'[t] = sessionPc[t] /\ response'[t] = response[t]
          /\ taken'[t] = taken[t]
      BY <2>2 DEF SessionMoves, OnlySession
    <3>3. taken'[s] \in 1 .. Len(asked[s]) =>
              InHand(t).of # asked[s][taken'[s]].of
      BY <2>2, <3>1, OneAsker DEF InHand
    <3>4. execution'[InHand(t).of] = execution[InHand(t).of]
      BY <3>1, <3>3, SessionExecution DEF ExecutionStep, SystemInv, SystemType
    <3>5. InHand(t)' = InHand(t)
      BY <1>1, <3>2 DEF InHand
    <3> QED
      BY <3>2, <3>4, <3>5 DEF SystemInv, Executing, InHandExecution
  <2>3. CASE t # s /\ sessionPc[t] \notin {"queued", "calling", "sending"}
    BY <2>3 DEF SessionMoves, OnlySession, InHandExecution
  <2> QED
    BY <2>1, <2>2, <2>3
<1> QED
  BY <1>4, <1>5 DEF Executing

LEMMA SessionTold ==
    ASSUME SystemInv, NEW s \in Connects, SessionMoves(s) PROVE AllTold'
<1> SUFFICES ASSUME NEW c \in Calls PROVE Told(c)'
  BY DEF AllTold
<1>1. UNCHANGED <<asked, read, callPc, rx, result>>
  BY DEF SessionMoves, OnlySession
<1>2. \A tag : Allowed(tag, execution[c]) => Allowed(tag, execution'[c])
  BY SessionExecution, AllowedStays
<1>3. Told(c) /\ (Heard(c)' <=> Heard(c))
  BY <1>1 DEF SystemInv, AllTold, Heard
<1> QED
  BY <1>1, <1>2, <1>3 DEF Told, Answers

-----------------------------------------------------------------------------
(* The invariant, when the client takes a step.                            *)

\* The outcomes with which a call can return.
Returnable(c) ==
    {ConnectionClosed, TimedOut, WebTransport} \cup ({rx[c]} \ {Empty})

\* What a step of the client alone does to the calls: at most one returns.
CallsMove ==
    /\ \A c \in Calls : /\ callPc[c] = "returned" => callPc'[c] = "returned"
                        /\ rx'[c] \in Answers => rx'[c] = rx[c]
                        /\ callPc'[c] = "waiting" /\ rx'[c] = Empty =>
                              callPc[c] = "waiting" /\ rx[c] = Empty
    /\ \/ UNCHANGED result
       \/ \E c \in Calls : \E o \in Returnable(c) :
             /\ callPc[c] # "returned" /\ callPc'[c] = "returned"
             /\ rx'[c] = Empty /\ result' = [result EXCEPT ![c] = o]

LEMMA OutcomesDiffer ==
    /\ {Empty, ConnectionClosed} \cap Answers = {}
    /\ ConnectionClosed # Empty
  BY DEF Empty, ConnectionClosed, Outcome, Answers

LEMMA ReturnMoves ==
    ASSUME TypeInv, NEW c \in Calls,
           callPc[c] \in {"registered", "sending", "waiting"},
           NEW o \in Returnable(c), Return(c, o)
    PROVE  CallsMove
<1>1. /\ callPc' = [callPc EXCEPT ![c] = "returned"]
      /\ result' = [result EXCEPT ![c] = o]
      /\ rx' = [rx EXCEPT ![c] = Empty]
  BY DEF Return
<1>2. /\ callPc'[c] = "returned" /\ rx'[c] = Empty
      /\ \A d \in Calls \ {c} : callPc'[d] = callPc[d] /\ rx'[d] = rx[d]
  BY <1>1 DEF TypeInv, TypeOK
<1> QED
  BY <1>1, <1>2, OutcomesDiffer DEF CallsMove

LEMMA CallMoves ==
    ASSUME TypeInv, NEW c \in Calls,
           \/ TakeId(c) \/ Register(c)
           \/ Refuse(c) \/ RefuseOversized(c) \/ BeginSend(c) \/ FailSend(c)
           \/ Receive(c) \/ Timeout(c) \/ Cancel(c)
    PROVE  CallsMove
<1>1. CASE Refuse(c) \/ RefuseOversized(c) \/ FailSend(c) \/ Receive(c)
           \/ Timeout(c)
  <2>1. /\ callPc[c] \in {"registered", "sending", "waiting"}
        /\ \E o \in Returnable(c) : Return(c, o)
    BY <1>1 DEF Refuse, RefuseOversized, FailSend, Receive, Timeout, Returnable
  <2> QED
    BY <2>1, ReturnMoves
<1>2. CASE TakeId(c) \/ Register(c) \/ BeginSend(c) \/ Cancel(c)
  <2>1. /\ callPc[c] \in {"idle", "numbered", "registered", "sending",
                          "waiting"}
        /\ \E pc \in {"numbered", "registered", "sending", "cancelled"} :
              callPc' = [callPc EXCEPT ![c] = pc]
    BY <1>2 DEF TakeId, Register, BeginSend, Cancel
  <2>2. UNCHANGED result
    BY <1>2 DEF TakeId, Register, BeginSend, Cancel
  <2>3. \A d \in Calls :
            \/ rx'[d] \in {rx[d], ConnectionClosed}
            \/ d = c /\ rx'[d] = Empty /\ callPc'[d] = "cancelled"
    BY <1>2 DEF TakeId, Register, BeginSend, Cancel, TypeInv, TypeOK
  <2> QED
    BY <2>1, <2>2, <2>3, OutcomesDiffer DEF CallsMove, TypeInv, TypeOK
<1> QED
  BY <1>1, <1>2

LEMMA TaskMoves ==
    ASSUME TypeInv,
           \/ \E p \in Connects :
                \/ ConnectStep(p)
                \/ HandlerTake(p) \/ HandlerEnd(p) \/ HandlerPutBack(p)
                \/ ConnectionLost(p)
           \/ \E x \in Closes : CloseStep(x)
           \/ DropClient
    PROVE  CallsMove
<1>1. UNCHANGED <<callPc, result>>
  BY DEF ConnectStep, ConnectOpen, ConnectFail, ConnectSession, ConnectStream,
         HandlerTake, HandlerEnd, HandlerPutBack, ConnectionLost, CloseStep,
         CloseSession, CloseStream, ClosePending, DropClient, callVars
<1>2. \A c \in Calls : rx'[c] \in {rx[c], ConnectionClosed}
  BY DEF ConnectStep, ConnectOpen, ConnectFail, ConnectSession, ConnectStream,
         HandlerTake, HandlerEnd, HandlerPutBack, ConnectionLost, CloseStep,
         CloseSession, CloseStream, ClosePending, DropClient, callVars
<1> QED
  BY <1>1, <1>2, OutcomesDiffer DEF CallsMove

LEMMA ClientAloneMoves ==
    ASSUME SystemInv, ClientAlone PROVE CallsMove
<1> TypeInv
  BY DEF SystemInv, IdInv
<1> QED
  BY CallMoves, TaskMoves DEF ClientAlone

\* Only connects that have begun store a stream.
LEMMA StoredStep ==
    ASSUME TypeInv, StoredAreOpened, [Next]_vars PROVE StoredAreOpened'
<1> USE DEF StoredAreOpened
<1>1. CASE UNCHANGED <<session, message_stream, handlerStream, connectPc>>
  BY <1>1
<1>2. ASSUME NEW p \in Connects, ConnectStep(p) PROVE StoredAreOpened'
  <2>1. /\ UNCHANGED handlerStream
        /\ session' \in {session, p} /\ message_stream' \in {message_stream, p}
        /\ \E pc \in {"opened", "failed", "session_set", "connected"} :
              connectPc' = [connectPc EXCEPT ![p] = pc]
    BY <1>2 DEF ConnectStep, ConnectOpen, ConnectFail, ConnectSession,
                ConnectStream, sharedVars
  <2>2. connectPc'[p] # "idle"
        /\ \A q \in Connects : connectPc[q] # "idle" => connectPc'[q] # "idle"
    BY <2>1 DEF TypeInv, TypeOK
  <2> QED
    BY <2>1, <2>2
<1>3. ASSUME NEW h \in Connects, HandlerTake(h) \/ HandlerPutBack(h)
      PROVE  StoredAreOpened'
  <2>1. UNCHANGED <<session, connectPc>>
    BY <1>3 DEF HandlerTake, HandlerPutBack
  <2>2. \/ /\ handlerStream' = [handlerStream EXCEPT ![h] = message_stream]
           /\ message_stream' = NoOne
        \/ /\ handlerStream' = [handlerStream EXCEPT ![h] = NoOne]
           /\ message_stream' = handlerStream[h]
    BY <1>3 DEF HandlerTake, HandlerPutBack
  <2>3. /\ handlerStream'[h] \in {message_stream, NoOne}
        /\ message_stream' \in {handlerStream[h], NoOne}
        /\ \A g \in Connects \ {h} : handlerStream'[g] = handlerStream[g]
    BY <2>2 DEF TypeInv, TypeOK
  <2> QED
    BY <2>1, <2>3
<1>4. ASSUME NEW x \in Closes, CloseStep(x) PROVE StoredAreOpened'
  <2> /\ session' \in {session, NoOne}
      /\ message_stream' \in {message_stream, NoOne}
      /\ UNCHANGED <<handlerStream, connectPc>>
    BY <1>4 DEF CloseStep, CloseSession, CloseStream, ClosePending
  <2> QED
    OBVIOUS
<1>5. ASSUME \/ \E c \in Calls : CallStep(c)
             \/ \E h \in Connects :
                   HandlerDispatch(h) \/ HandlerSkip(h) \/ HandlerEnd(h)
             \/ DropClient \/ Environment \/ UNCHANGED vars
      PROVE  UNCHANGED <<session, message_stream, handlerStream, connectPc>>
  BY <1>5
  DEF CallStep, CallProgress, TakeId, Register, Refuse, RefuseOversized,
      BeginSend, Flush, FailSend, Receive, Timeout, Cancel, Return,
      HandlerDispatch, HandlerSkip, HandlerEnd, DropClient, Environment,
      PeerRead, PeerReply, PeerGarbage, PeerEnds, ConnectionLost, vars,
      sharedVars, taskVars
<1> QED
  BY <1>1, <1>2, <1>3, <1>4, <1>5 DEF Next, HandlerStep, Finished

LEMMA ClientAloneType == ASSUME SystemInv, ClientAlone PROVE SystemType'
<1> UNCHANGED <<method, asked, execution>>
  BY ClientAloneStreams
<1> QED
  BY DEF SystemInv, SystemType, S!Methods

\* What is on the way afterwards is a first part of what was.
KeptOrCut(t) ==
    /\ Len(toClient'[t]) \in 0 .. Len(toClient[t])
    /\ \A k \in 1 .. Len(toClient'[t]) : toClient'[t][k] = toClient[t][k]

LEMMA ClientAloneLinked ==
    ASSUME SystemInv, ClientAlone
    PROVE  Linked' /\ \A s \in Connects : KeptOrCut(s)
<1> SUFFICES ASSUME NEW t \in Connects PROVE StreamLink(t)' /\ KeptOrCut(t)
  BY DEF Linked
<1>1. UNCHANGED <<sessionPc, taken, replies, read>>
  BY ClientAloneStreams DEF serverVars
<1>2. StreamLink(t) /\ StreamsMove
  BY ClientAloneStreams DEF SystemInv, Linked
<1>3. /\ stream \in [Connects -> {"none", "open", "ended", "finished", "down"}]
      /\ toClient \in [Connects -> Seq(Response \cup {Garbage})]
      /\ Len(toClient[t]) \in Nat
  BY LenProperties DEF SystemInv, IdInv, TypeInv, TypeOK
<1>4. connectPc'[t] = "idle" => connectPc[t] = "idle"
  BY <1>2 DEF StreamsMove
<1>5. CASE stream'[t] = stream[t] /\ toClient'[t] = toClient[t]
  BY <1>1, <1>2, <1>3, <1>4, <1>5 DEF StreamLink, KeptOrCut
<1>6. CASE /\ connectPc[t] = "idle" /\ connectPc'[t] # "idle"
           /\ stream'[t] = "open" /\ toClient'[t] = toClient[t]
  <2>1. stream[t] = "none" /\ sessionPc[t] = "accepting" /\ read[t] = 0
        /\ toClient[t] = <<>>
    BY <1>2, <1>6 DEF StreamLink
  <2>2. Len(replies[t]) = 0 /\ taken[t] \in Nat
    BY <2>1, SessionFacts
  <2>3. Len(toClient[t]) = 0
    BY <2>1
  <2> QED
    BY <1>1, <1>6, <2>1, <2>2, <2>3 DEF StreamLink, KeptOrCut
<1>7. ASSUME connectPc[t] # "idle", KeptOrCut(t),
             \/ stream'[t] = "down"
             \/ stream'[t] = "finished" /\ toClient'[t] = <<>>
      PROVE  StreamLink(t)'
  <2>1. connectPc'[t] # "idle"
    BY <1>4, <1>7
  <2>2. /\ read[t] \in Nat /\ Len(replies[t]) \in Nat
        /\ Len(toClient'[t]) \in 0 .. Len(toClient[t])
    BY <1>7, SessionFacts DEF KeptOrCut
  <2>3. read[t] + Len(toClient'[t]) <= Len(replies[t])
    BY <1>2, <1>3, <2>2 DEF StreamLink
  <2> QED
    BY <1>1, <1>2, <1>7, <2>1, <2>3 DEF StreamLink
<1>8. ASSUME NEW s \in Connects, Release(s), connectPc[s] # "idle"
      PROVE  \/ stream'[t] = stream[t] /\ toClient'[t] = toClient[t]
             \/ /\ stream'[t] \in {"finished", "down"}
                /\ connectPc[t] # "idle" /\ toClient'[t] = <<>>
  BY <1>3, <1>8, ClientAssumption DEF Release
<1>9. ASSUME NEW Lost \in SUBSET Connects, TakeDown(Lost),
             \A s \in Lost : connectPc[s] # "idle"
      PROVE  \/ stream'[t] = stream[t] /\ toClient'[t] = toClient[t]
             \/ /\ stream'[t] = "down"
                /\ connectPc[t] # "idle" /\ KeptOrCut(t)
  <2>1. CASE t \in Lost
    <3> KeptOrCut(t)
      BY <1>3, <1>9, TakenDown DEF KeptOrCut
    <3> QED
      BY <1>9, <2>1 DEF TakeDown
  <2>2. CASE t \notin Lost
    BY <1>9, <2>2 DEF TakeDown
  <2> QED
    BY <2>1, <2>2
<1>10. toClient'[t] = <<>> => KeptOrCut(t)
  BY <1>3 DEF KeptOrCut
<1>11. ASSUME NEW p \in Connects, connectPc[p] = "idle", connectPc'[p] # "idle",
              stream' = [stream EXCEPT ![p] = "open"], UNCHANGED toClient
       PROVE  \/ stream'[t] = stream[t] /\ toClient'[t] = toClient[t]
              \/ /\ connectPc[t] = "idle" /\ connectPc'[t] # "idle"
                 /\ stream'[t] = "open" /\ toClient'[t] = toClient[t]
  BY <1>3, <1>11
<1> QED
  BY <1>2, <1>5, <1>6, <1>7, <1>8, <1>9, <1>10, <1>11 DEF StreamsMove

LEMMA ClientAloneOnTheWay == ASSUME SystemInv, ClientAlone PROVE OnTheWay'
<1>1. UNCHANGED <<asked, read, execution>>
  BY ClientAloneStreams DEF serverVars
<1>2. ASSUME NEW s \in Connects, NEW k \in 1 .. Len(toClient'[s])
      PROVE  AnswerOnTheWay(s, k)'
  <2>1. k \in 1 .. Len(toClient[s]) /\ toClient'[s][k] = toClient[s][k]
    <3>1. Len(toClient'[s]) \in 0 .. Len(toClient[s])
          /\ toClient'[s][k] = toClient[s][k]
      BY <1>2, ClientAloneLinked DEF KeptOrCut
    <3>2. Len(toClient[s]) \in Nat
      BY LenProperties DEF SystemInv, IdInv, TypeInv, TypeOK
    <3> QED
      BY <3>1, <3>2
  <2>2. AnswerOnTheWay(s, k)
    BY <1>2, <2>1 DEF SystemInv, OnTheWay
  <2> QED
    BY <1>1, <2>1, <2>2 DEF AnswerOnTheWay
<1> QED
  BY <1>2 DEF OnTheWay

LEMMA ClientAloneExecuting == ASSUME SystemInv, ClientAlone PROVE Executing'
<1> UNCHANGED <<asked, execution, taken, sessionPc, response>>
  BY ClientAloneStreams DEF serverVars
<1> QED
  BY DEF SystemInv, Executing, InHandExecution, InHand, TakenUp

LEMMA ClientAloneTold == ASSUME SystemInv, ClientAlone PROVE AllTold'
<1> SUFFICES ASSUME NEW c \in Calls PROVE Told(c)'
  BY DEF AllTold
<1>1. UNCHANGED <<asked, read, execution>>
  BY ClientAloneStreams DEF serverVars
<1>2. Told(c) /\ (Heard(c)' <=> Heard(c))
  BY <1>1 DEF SystemInv, AllTold, Heard
<1>3. CallsMove
  BY ClientAloneMoves
<1>4. rx'[c] \in Answers => Heard(c)' /\ Allowed(rx'[c].tag, execution'[c])
  BY <1>1, <1>2, <1>3 DEF Told, CallsMove
<1>5. Heard(c)' => ~ (callPc'[c] = "waiting" /\ rx'[c] = Empty)
  BY <1>2, <1>3 DEF Told, CallsMove
<1>6. /\ result'[c] \in Answers => Heard(c)'
      /\ callPc'[c] # "returned" => result'[c] = Empty
  <2>1. CASE UNCHANGED result
    BY <1>2, <1>3, <2>1 DEF Told, CallsMove
  <2>2. ASSUME NEW d \in Calls, NEW o \in Returnable(d),
               callPc[d] # "returned", callPc'[d] = "returned",
               result' = [result EXCEPT ![d] = o]
        PROVE  /\ result'[c] \in Answers => Heard(c)'
               /\ callPc'[c] # "returned" => result'[c] = Empty
    <3>1. result'[c] = IF c = d THEN o ELSE result[c]
      BY <2>2 DEF SystemInv, IdInv, TypeInv, TypeOK
    <3>2. o \in Answers => o = rx[d]
      BY DEF Returnable, ConnectionClosed, TimedOut, WebTransport, Outcome,
             Answers
    <3> QED
      BY <1>2, <1>3, <2>2, <3>1, <3>2 DEF Told, CallsMove
  <2> QED
    BY <1>3, <2>1, <2>2 DEF CallsMove
<1> QED
  BY <1>4, <1>5, <1>6 DEF Told

\* An answer on the way is one to a request that has been asked.
LEMMA AnswersAreAsked ==
    ASSUME SystemInv, NEW s \in Connects, NEW k \in 1 .. Len(toClient[s])
    PROVE  read[s] + k \in 1 .. Len(asked[s])
<1>1. Len(toClient[s]) \in Nat
  BY LenProperties DEF SystemInv, IdInv, TypeInv, TypeOK
<1>2. /\ read[s] + Len(toClient[s]) <= Len(replies[s])
      /\ Len(replies[s]) <= taken[s]
  BY DEF SystemInv, Linked, StreamLink
<1> DEFINE n == Len(toClient[s])
           r == Len(replies[s])
<1>3. /\ n \in Nat /\ k \in 1 .. n /\ read[s] + n <= r /\ r <= taken[s]
      /\ r \in Nat /\ read[s] \in Nat /\ taken[s] \in Nat
      /\ Len(asked[s]) \in Nat /\ taken[s] <= Len(asked[s])
  BY <1>1, <1>2, SessionFacts
<1> HIDE DEF n, r
<1> QED
  BY <1>3

LEMMA HeardIsAsked ==
    ASSUME SystemInv, NEW s \in Connects
    PROVE  /\ \A k \in 1 .. read[s] : k \in 1 .. Len(asked[s])
           /\ \A k \in 1 .. taken[s] : k \in 1 .. Len(asked[s])
<1>1. /\ read[s] + Len(toClient[s]) <= Len(replies[s])
      /\ Len(replies[s]) <= taken[s]
  BY DEF SystemInv, Linked, StreamLink
<1>2. Len(toClient[s]) \in Nat
  BY LenProperties DEF SystemInv, IdInv, TypeInv, TypeOK
<1> QED
  BY <1>1, <1>2, SessionFacts

LEMMA AskStep ==
    ASSUME SystemInv, NEW c \in Calls, Ask(c)
    PROVE  /\ SystemType' /\ Linked' /\ OnTheWay' /\ Executing'
           /\ AllTold'
<1>1. SystemType /\ Linked /\ OnTheWay /\ Executing /\ AllTold
  BY DEF SystemInv
<1>2. PICK s \in Connects, h \in Request :
          /\ h.of \in Calls
          /\ \A t \in Connects : ~ Carries(asked[t], h.of)
          /\ asked' = [asked EXCEPT ![s] = Append(asked[s], h)]
          /\ \A d \in Calls : callPc'[d] # callPc[d] =>
                /\ d = h.of /\ callPc[d] = "sending"
                /\ callPc'[d] = "waiting"
          /\ UNCHANGED <<method, serverVars, execution, rx, result,
                         connectPc, stream, toClient>>
  BY AskFacts
<1>3. /\ asked'[s] = Append(asked[s], h) /\ asked[s] \in Seq(Request)
      /\ \A t \in Connects \ {s} : asked'[t] = asked[t]
  BY <1>1, <1>2 DEF SystemType
<1>4. \A t \in Connects : \A k \in 1 .. Len(asked[t]) :
          asked'[t][k] = asked[t][k]
  BY <1>3, AppendProperties
<1>5. SystemType'
  <2> asked' \in [Connects -> Seq(Request)]
    BY <1>1, <1>2, <1>3, AppendProperties DEF SystemType
  <2> QED
    BY <1>1, <1>2 DEF SystemType, S!Methods
<1>7. Linked'
  BY <1>1, <1>2 DEF Linked, StreamLink, serverVars
<1>8. OnTheWay'
  <2> SUFFICES ASSUME NEW t \in Connects, NEW k \in 1 .. Len(toClient'[t])
               PROVE  AnswerOnTheWay(t, k)'
    BY DEF OnTheWay
  <2>1. toClient' = toClient /\ read' = read /\ execution' = execution
    BY <1>2 DEF serverVars
  <2>2. AnswerOnTheWay(t, k)
    BY <1>1, <2>1 DEF OnTheWay
  <2>3. asked'[t][read[t] + k] = asked[t][read[t] + k]
    BY <1>4, <2>1, AnswersAreAsked
  <2> QED
    BY <2>1, <2>2, <2>3 DEF AnswerOnTheWay
<1>9. Executing'
  <2>0. UNCHANGED <<execution, taken, sessionPc, response>>
    BY <1>2 DEF serverVars
  <2>1. \A d \in Calls : TakenUp(d)' <=> TakenUp(d)
    BY <1>4, <2>0, HeardIsAsked DEF TakenUp
  <2>2. ASSUME NEW t \in Connects PROVE InHandExecution(t)'
    <3>1. CASE sessionPc[t] \in {"queued", "calling", "sending"}
      <4> InHand(t)' = InHand(t)
        BY <1>4, <2>0, <3>1, HandIsAsked DEF InHand
      <4> QED
        BY <1>1, <2>0 DEF Executing, InHandExecution
    <3>2. CASE sessionPc[t] \notin {"queued", "calling", "sending"}
      BY <2>0, <3>2 DEF InHandExecution
    <3> QED
      BY <3>1, <3>2
  <2> QED
    BY <1>1, <2>0, <2>1, <2>2 DEF Executing
<1>10. AllTold'
  <2>0. UNCHANGED <<execution, read, rx, result>>
    BY <1>2 DEF serverVars
  <2>1. \A d \in Calls : Heard(d)' <=> Heard(d)
    BY <1>4, <2>0, HeardIsAsked DEF Heard
  <2>2. ~ Heard(h.of)
    BY <1>2, HeardIsAsked DEF Heard, Carries
  <2>3. ASSUME NEW d \in Calls PROVE Told(d)'
    <3>1. Told(d)
      BY <1>1 DEF AllTold
    <3>2. CASE callPc'[d] = callPc[d]
      BY <2>0, <2>1, <3>1, <3>2 DEF Told
    <3>3. CASE callPc'[d] # callPc[d]
      <4> d = h.of /\ callPc[d] = "sending" /\ ~ Heard(d)
        BY <1>2, <2>2, <3>3
      <4> QED
        BY <2>0, <2>1, <3>1 DEF Told
    <3> QED
      BY <3>2, <3>3
  <2> QED
    BY <2>3 DEF AllTold
<1> QED
  BY <1>5, <1>7, <1>8, <1>9, <1>10

\* The first response on the way, and whose it is.
LEMMA NextAnswer ==
    ASSUME SystemInv, NEW s \in Connects, Len(toClient[s]) \in Nat \ {0}
    PROVE  LET m == toClient[s][1]
           IN  /\ read[s] + 1 \in 1 .. Len(asked[s])
               /\ m.of = asked[s][read[s] + 1].of /\ m.of \in Calls
               /\ m.tag \in {"ok", "rpc_failed"}
               /\ m.id = reqId[m.of] /\ Allowed(m.tag, execution[m.of])
<1> DEFINE m == toClient[s][1]
<1>1. 1 \in 1 .. Len(toClient[s])
  OBVIOUS
<1>2. AnswerOnTheWay(s, 1) /\ read[s] + 1 \in 1 .. Len(asked[s])
  BY <1>1, AnswersAreAsked DEF SystemInv, OnTheWay
<1>3. m \in Response /\ m.of = asked[s][read[s] + 1].of
      /\ Allowed(m.tag, execution[m.of])
  BY <1>2 DEF AnswerOnTheWay
<1>4. m.of \in Calls /\ m.tag \in {"ok", "rpc_failed"}
  BY <1>3 DEF Response
<1>5. m \in OwnResponses
  BY <1>1 DEF SystemInv, IdInv, OwnMessages
<1>6. m # Garbage
  BY <1>4 DEF Garbage
<1>7. m.id = reqId[m.of]
  BY <1>5, <1>6 DEF OwnResponses
<1> QED
  BY <1>2, <1>3, <1>4, <1>7

LEMMA DispatchStep ==
    ASSUME SystemInv, NEW h \in Connects, Dispatch(h)
    PROVE  /\ SystemType' /\ Linked' /\ OnTheWay' /\ Executing'
           /\ AllTold'
<1>1. SystemType /\ Linked /\ OnTheWay /\ Executing /\ AllTold
  BY DEF SystemInv
<1>2. PICK s \in Connects :
        LET m == toClient[s][1]
            n == Len(toClient[s])
        IN  /\ stream[s] \in {"open", "ended", "down"}
            /\ n \in Nat \ {0}
            /\ read[s] \in Nat /\ read[s] < Len(replies[s])
            /\ read' = [read EXCEPT ![s] = read[s] + 1]
            /\ toClient' = [toClient EXCEPT ![s] = Tail(toClient[s])]
            /\ Len(toClient'[s]) = n - 1
            /\ \A k \in 1 .. n - 1 : toClient'[s][k] = toClient[s][k + 1]
            /\ rx' = [c \in Calls |-> IF pending[m.id] = c /\ Listening(c)
                                      THEN Outcome(m.tag, m.of) ELSE rx[c]]
            /\ UNCHANGED <<method, asked, sessionPc, taken, response, replies,
                           execution, callPc, reqId, result, connectPc,
                           stream, wbuf>>
  BY DispatchFacts
<1> DEFINE m == toClient[s][1]
           n == Len(toClient[s])
<1>3. PICK c \in Calls :
          /\ c = m.of /\ read[s] + 1 \in 1 .. Len(asked[s])
          /\ c = asked[s][read[s] + 1].of
          /\ m.tag \in {"ok", "rpc_failed"}
          /\ m.id = reqId[c] /\ Allowed(m.tag, execution[c])
  BY <1>2, NextAnswer
<1>4. /\ read'[s] = read[s] + 1 /\ read[s] \in Nat
      /\ \A t \in Connects \ {s} :
            read'[t] = read[t] /\ toClient'[t] = toClient[t]
  BY <1>2, SessionTypes DEF SystemInv, IdInv, TypeInv, TypeOK
<1>5. SystemType'
  <2> UNCHANGED <<method, asked, execution>>
    BY <1>2
  <2> QED
    BY <1>1 DEF SystemType, S!Methods
<1>6. ASSUME NEW t \in Connects PROVE StreamLink(t)'
  <2>1. StreamLink(t)
    BY <1>1 DEF Linked
  <2>2. CASE t # s
    BY <1>2, <1>4, <2>1, <2>2 DEF StreamLink
  <2>3. CASE t = s
    <3>1. /\ read[s] + n <= Len(replies[s]) /\ n \in Nat \ {0}
          /\ stream[s] \in {"open", "ended"} => Len(replies[s]) = read[s] + n
          /\ Len(toClient'[s]) = n - 1
          /\ Len(replies[s]) \in Nat
      BY <1>2, <2>1, <2>3, SessionFacts DEF StreamLink
    <3> HIDE DEF n
    <3>2. /\ read'[s] + Len(toClient'[s]) <= Len(replies[s])
          /\ stream[s] \in {"open", "ended"} =>
                Len(replies[s]) = read'[s] + Len(toClient'[s])
      BY <1>4, <3>1
    <3> QED
      BY <1>2, <2>1, <2>3, <3>2 DEF StreamLink
  <2> QED
    BY <2>2, <2>3
<1>7. ASSUME NEW t \in Connects, NEW k \in 1 .. Len(toClient'[t])
      PROVE  AnswerOnTheWay(t, k)'
  <2>1. CASE t # s
    <3> AnswerOnTheWay(t, k)
      BY <1>1, <1>4, <1>7, <2>1 DEF OnTheWay
    <3> QED
      BY <1>2, <1>4, <2>1 DEF AnswerOnTheWay
  <2>2. CASE t = s
    <3>1. n \in Nat \ {0} /\ k \in 1 .. n - 1
      BY <1>2, <1>7, <2>2
    <3> HIDE DEF n
    <3>2. /\ k + 1 \in 1 .. n
          /\ read'[s] + k = read[s] + (k + 1)
      BY <1>4, <3>1
    <3>3. AnswerOnTheWay(s, k + 1) /\ toClient'[s][k] = toClient[s][k + 1]
      BY <1>1, <1>2, <3>1, <3>2 DEF OnTheWay, n
    <3> QED
      BY <1>2, <2>2, <3>2, <3>3 DEF AnswerOnTheWay
  <2> QED
    BY <2>1, <2>2
<1>8. Executing'
  BY <1>1, <1>2 DEF Executing, InHandExecution, InHand, TakenUp
<1>9. ASSUME NEW d \in Calls PROVE Told(d)'
  <2>1. Told(d)
    BY <1>1 DEF AllTold
  <2>2. Heard(d)' <=> Heard(d) \/ d = c
    <3>1. UNCHANGED asked
      BY <1>2
    <3>2. \A k : k \in 1 .. read'[s] <=>
                    k \in 1 .. read[s] \/ k = read[s] + 1
      BY <1>4
    <3>3. \A t \in Connects : 1 .. read[t] \subseteq 1 .. read'[t]
      BY <1>4, <3>2
    <3>4. Heard(d) => Heard(d)'
      BY <3>1, <3>3 DEF Heard
    <3>5. Heard(c)'
      BY <1>3, <3>1, <3>2 DEF Heard
    <3>6. ASSUME Heard(d)', d # c PROVE Heard(d)
      <4>1. PICK t \in Connects : \E k \in 1 .. read'[t] : asked[t][k].of = d
        BY <3>1, <3>6 DEF Heard
      <4>2. PICK k \in 1 .. read'[t] : asked[t][k].of = d
        BY <4>1
      <4>3. k \in 1 .. read[t]
        BY <1>3, <1>4, <3>2, <3>6, <4>2
      <4> QED
        BY <4>2, <4>3 DEF Heard
    <3> QED
      BY <3>4, <3>5, <3>6
  <2>3. rx'[d] = IF pending[m.id] = d /\ Listening(d)
                 THEN Outcome(m.tag, c) ELSE rx[d]
    BY <1>2, <1>3
  <2>4. Outcome(m.tag, c) \in Answers /\ Outcome(m.tag, c).of = c
        /\ Outcome(m.tag, c).tag = m.tag
    BY <1>3 DEF Outcome, Answers
  <2>5. Outcome(m.tag, c) # Empty
    BY <2>4, OutcomesDiffer
  <2> HIDE DEF m
  <2>6. rx'[d] \in Answers => Heard(d)' /\ Allowed(rx'[d].tag, execution'[d])
    <3>1. rx'[d] \in Answers => rx'[d].of = d
      <4> SystemNext
        BY DEF SystemNext
      <4> ChannelMatchesCall'
        BY SystemStepsOfClient, IdStep DEF SystemInv, IdInv
      <4> QED
        BY DEF ChannelMatchesCall
    <3> QED
      BY <1>2, <1>3, <2>1, <2>2, <2>3, <2>4, <3>1 DEF Told
  <2>7. Heard(d)' => ~ (callPc'[d] = "waiting" /\ rx'[d] = Empty)
    <3> SUFFICES ASSUME Heard(d)', callPc[d] = "waiting", rx'[d] = Empty
                 PROVE  FALSE
      BY <1>2
    <3>1. rx[d] = Empty
      BY <2>3, <2>5
    <3>2. d = c
      BY <2>1, <2>2, <3>1 DEF Told
    <3>3. Listening(d) /\ pending[reqId[d]] = d
      BY <3>1 DEF Listening, SystemInv, IdInv, WaiterIsPending
    <3> QED
      BY <1>3, <2>3, <2>5, <3>2, <3>3
  <2> QED
    BY <1>2, <2>1, <2>2, <2>6, <2>7 DEF Told
<1> QED
  BY <1>5, <1>6, <1>7, <1>8, <1>9 DEF Linked, OnTheWay, AllTold

-----------------------------------------------------------------------------
(* The invariant.                                                          *)

\* A registration, and a step of nobody, leave all of it alone.
LEMMA StillStep ==
    ASSUME SystemInv,
           \/ Rest \/ UNCHANGED systemVars
           \/ \E r \in Registrars : RegisterService(r)
    PROVE  /\ SystemType' /\ Linked' /\ OnTheWay' /\ Executing'
           /\ AllTold'
<1>1. /\ UNCHANGED <<vars, method, asked, execution, read, sessionPc, taken,
                     response, replies>>
  BY DEF Rest, systemVars, deliveryVars, serverVars, RegisterService,
         S!RegisterStep,
         S!RequestWrite, S!Insert, S!sessionVars, S!clientVars
<1>2. UNCHANGED <<connectPc, stream, toClient, wbuf, callPc, rx, result>>
  BY <1>1 DEF vars, callVars, taskVars, networkVars
<1>3. SystemType'
  BY <1>1 DEF SystemInv, SystemType, S!Methods
<1>5. Linked'
  BY <1>1, <1>2 DEF SystemInv, Linked, StreamLink
<1>6. OnTheWay'
  BY <1>1, <1>2 DEF SystemInv, OnTheWay, AnswerOnTheWay
<1>7. Executing'
  BY <1>1 DEF SystemInv, Executing, InHandExecution, InHand, TakenUp
<1>8. AllTold'
  BY <1>1, <1>2 DEF SystemInv, AllTold, Told, Heard
<1> QED
  BY <1>3, <1>5, <1>6, <1>7, <1>8

LEMMA SystemInvInit == SystemInit => SystemInv
<1> SUFFICES ASSUME SystemInit PROVE SystemInv
  OBVIOUS
<1>1. DeliveryInv /\ IdInv /\ SP!Inv
  BY DeliveryInvInit, IdInit, SameInit, ServerInvInit
  DEF SystemInit, DeliveryInit
<1>2. /\ asked = [s \in Connects |-> <<>>]
      /\ method \in [Calls -> S!Methods]
      /\ execution = [c \in Calls |-> "none"]
      /\ sessionPc = [s \in Connects |-> "accepting"]
      /\ taken = [s \in Connects |-> 0] /\ read = [s \in Connects |-> 0]
      /\ replies = [s \in Connects |-> <<>>]
  BY DEF SystemInit, DeliveryInit, S!Init
<1>3. /\ stream = [s \in Connects |-> "none"]
      /\ connectPc = [s \in Connects |-> "idle"]
      /\ toClient = [s \in Connects |-> <<>>]
      /\ handlerStream = [h \in Connects |-> NoOne]
      /\ session = NoOne /\ message_stream = NoOne
      /\ rx = [c \in Calls |-> Empty] /\ result = [c \in Calls |-> Empty]
  BY DEF SystemInit, DeliveryInit, Init
<1>4. SystemType
  BY <1>2 DEF SystemType, Executions
<1>6. StoredAreOpened
  BY <1>3 DEF StoredAreOpened
<1>7. Linked
  BY <1>2, <1>3 DEF Linked, StreamLink
<1>8. OnTheWay
  BY <1>3 DEF OnTheWay
<1>9. Executing
  BY <1>2 DEF Executing, InHandExecution
<1>10. \A c \in Calls : ~ Heard(c)
  BY <1>2 DEF Heard
<1>11. AllTold
  BY <1>3, <1>10, OutcomesDiffer DEF AllTold, Told
<1> QED
  BY <1>1, <1>4, <1>6, <1>7, <1>8, <1>9, <1>11 DEF SystemInv

LEMMA SystemInvStep == SystemInv /\ [SystemNext]_systemVars => SystemInv'
<1> SUFFICES ASSUME SystemInv, [SystemNext]_systemVars PROVE SystemInv'
  OBVIOUS
<1>1. [Next]_vars
  BY SystemStepsOfClient
<1>2. DeliveryInv' /\ IdInv' /\ StoredAreOpened'
  BY <1>1, SystemStepsOfDeliveries, DeliveryStep, IdStep, StoredStep
  DEF SystemInv, IdInv
<1>3. SP!Inv'
  BY SystemStepsOfServer, ServerInvStep DEF SystemInv
<1>4. /\ SystemType' /\ Linked' /\ OnTheWay' /\ Executing'
      /\ AllTold'
  <2>1. CASE ClientAlone
    BY <2>1, ClientAloneType, ClientAloneLinked, ClientAloneOnTheWay,
       ClientAloneExecuting, ClientAloneTold
  <2>2. CASE \E c \in Calls : Ask(c)
    BY <2>2, AskStep
  <2>3. CASE \E h \in Connects : Dispatch(h)
    BY <2>3, DispatchStep
  <2>4. ASSUME NEW s \in Connects,
               \/ Accept(s) \/ TakeUp(s) \/ LookUp(s) \/ Serve(s)
               \/ Respond(s) \/ EndSession(s)
        PROVE  /\ SystemType' /\ Linked' /\ OnTheWay'
               /\ Executing' /\ AllTold'
    <3> SessionMoves(s)
      BY <2>4, SessionStepMoves
    <3> QED
      BY SessionTypeStep, SessionLinked, SessionOnTheWay, SessionExecuting,
         SessionTold
  <2>5. CASE \/ Rest \/ UNCHANGED systemVars
             \/ \E r \in Registrars : RegisterService(r)
    BY <2>5, StillStep
  <2> QED
    BY <2>1, <2>2, <2>3, <2>4, <2>5 DEF SystemNext
<1> QED
  BY <1>2, <1>3, <1>4 DEF SystemInv

\* The two ends of every stream agree: what is on the way answers the oldest
\* requests without an answer, as their execution allows, and nothing that
\* cancelled sends leave behind or reconnections reorder changes that.
THEOREM SystemInvCorrect == SystemSpec => []SystemInv
BY SystemInvInit, SystemInvStep, PTL DEF SystemSpec

\* Of the history that the server reads as its input, Deliveries speaks too:
\* the server is never given the request of a call twice.
THEOREM SystemIsDeliveries == SystemSpec => DeliverySpec
<1>1. SystemInit => DeliveryInit
  BY DEF SystemInit
<1> QED
  BY <1>1, SystemInvInit, SystemInvStep, SystemStepsOfDeliveries, PTL
  DEF SystemSpec, DeliverySpec

\* The system is a Server: its clients, which Server lets do as they please,
\* are those of Client.
THEOREM SystemIsServer == SystemSpec => SP!Spec
<1>1. SystemInit => SP!Init
  BY SameInit DEF SystemInit
<1> QED
  BY <1>1, SystemInvInit, SystemInvStep, SystemStepsOfServer, PTL
  DEF SystemSpec, SP!Spec

\* So what is proved of Server holds in it: seen by this client too, the
\* server with its lock and its queue is the atomic service of RpcService.
THEOREM SystemKeepsPromise == SystemSpec => SP!ImplementsPromise
<1>1. SP!Spec => SP!ImplementsPromise
  BY ServerFacts, SP!PromiseCorrect
<1> QED
  BY <1>1, SystemIsServer

\* This server answers in the order of the requests: a call that has its
\* answer leaves no call waiting whose request went out before on the stream.
THEOREM AnswersInOrderCorrect == SystemSpec => []AnswersInOrder
<1>1. SystemInv => AnswersInOrder
  <2> SUFFICES ASSUME SystemInv, NEW s \in Connects,
                      NEW i \in 1 .. Len(asked[s]),
                      NEW j \in 1 .. Len(asked[s]),
                      i < j, result[asked[s][j].of] \in Answers
               PROVE  ~ (callPc[asked[s][i].of] = "waiting"
                           /\ rx[asked[s][i].of] = Empty)
    BY DEF AnswersInOrder
  <2>1. asked[s][i].of \in Calls /\ asked[s][j].of \in Calls
    BY OneAsker
  <2>2. Heard(asked[s][j].of)
    BY <2>1 DEF SystemInv, AllTold, Told
  <2>3. PICK t \in Connects : \E k \in 1 .. read[t] :
            asked[t][k].of = asked[s][j].of
    BY <2>2 DEF Heard
  <2>4. PICK k \in 1 .. read[t] : asked[t][k].of = asked[s][j].of
    BY <2>3
  <2>5. s = t /\ j = k
    BY <2>4, OneAsker, HeardIsAsked
  <2>6. i \in 1 .. read[s]
    BY <2>5, SessionFacts
  <2>7. Heard(asked[s][i].of)
    BY <2>6 DEF Heard
  <2> QED
    BY <2>1, <2>7 DEF SystemInv, AllTold, Told
<1> QED
  BY <1>1, SystemInvInit, SystemInvStep, PTL DEF SystemSpec

-----------------------------------------------------------------------------
(* The system is a RemoteCall.                                             *)

\* What RemoteCall calls outcome.
Returned ==
    [c \in Calls |-> IF result[c] \in Answers /\ result[c].of # c
                     THEN "foreign" ELSE result[c].tag]

\* A call has been told nothing else than the outcome of its execution.
LEMMA TellsTheOutcome ==
    ASSUME SystemInv, NEW c \in Calls, NEW o \in Returnable(c)
    PROVE  /\ o \in Answers => o.of = c
           /\ o.tag \in Promised!AnswersTo(c)
                        \cup {"connection_closed", "timeout", "web_transport"}
<1>1. CASE o \in {ConnectionClosed, TimedOut, WebTransport}
  BY <1>1 DEF ConnectionClosed, TimedOut, WebTransport, Outcome, Answers
<1>2. CASE o = rx[c] /\ o \in Answers
  <2>1. o.of = c
    BY <1>2 DEF SystemInv, IdInv, ChannelMatchesCall
  <2>2. Allowed(o.tag, execution[c])
    BY <1>2 DEF SystemInv, AllTold, Told
  <2>3. o.tag \in Promised!AnswersTo(c)
    BY <2>2 DEF Allowed, Promised!AnswersTo
  <2> QED
    BY <2>1, <2>3
<1> QED
  BY <1>1, <1>2
  DEF Returnable, SystemInv, IdInv, TypeInv, TypeOK, Channel

LEMMA ReturnIsPromised ==
    ASSUME SystemInv, UNCHANGED execution,
           NEW c \in Calls, NEW o \in Returnable(c), callPc[c] # "returned",
           result' = [result EXCEPT ![c] = o]
    PROVE  Promised!Next
<1>1. result[c] = Empty /\ result \in [Calls -> Outcomes]
  BY DEF SystemInv, AllTold, Told, IdInv, TypeInv, TypeOK
<1>2. Returned[c] = "none"
  BY <1>1, OutcomesDiffer DEF Returned, Empty, Outcome
<1>3. Returned' = [Returned EXCEPT ![c] = o.tag]
  BY <1>1, TellsTheOutcome DEF Returned
<1>4. Promised!Return(c)
  BY <1>2, <1>3, TellsTheOutcome DEF Promised!Return, Returned
<1> QED
  BY <1>4 DEF Promised!Next

LEMMA ExecutionIsPromised ==
    ASSUME NEW c \in Calls, ExecutionStep(c), UNCHANGED result
    PROVE  Promised!Next
<1>1. Returned' = Returned
  BY DEF Returned
<1>2. Promised!Reject(c) \/ Promised!Begin(c) \/ Promised!End(c)
  BY <1>1 DEF ExecutionStep, Promised!Reject, Promised!Begin, Promised!End,
              Returned
<1> QED
  BY <1>2 DEF Promised!Next

LEMMA SystemStepsOfRemoteCall ==
    SystemInv /\ [SystemNext]_systemVars => [Promised!Next]_Promised!vars
<1> SUFFICES ASSUME SystemInv, [SystemNext]_systemVars
             PROVE  [Promised!Next]_Promised!vars
  OBVIOUS
<1>1. ASSUME UNCHANGED <<execution, result>> PROVE UNCHANGED Promised!vars
  BY <1>1 DEF Promised!vars
<1>2. CASE ClientAlone
  <2>1. UNCHANGED execution /\ CallsMove
    BY <1>2, ClientAloneStreams, ClientAloneMoves
  <2> QED
    BY <1>1, <2>1, ReturnIsPromised DEF CallsMove
<1>3. CASE \E c \in Calls : Ask(c)
  BY <1>1, <1>3 DEF Ask, Flush
<1>4. CASE \E h \in Connects : Dispatch(h)
  BY <1>1, <1>4 DEF Dispatch, HandlerDispatch
<1>5. ASSUME NEW s \in Connects,
             \/ Accept(s) \/ TakeUp(s) \/ LookUp(s) \/ Serve(s)
             \/ Respond(s) \/ EndSession(s)
      PROVE  [Promised!Next]_Promised!vars
  <2>1. SessionMoves(s)
    BY <1>5, SessionStepMoves
  <2>2. UNCHANGED result
    BY <2>1 DEF SessionMoves, OnlySession
  <2> QED
    BY <1>1, <2>1, <2>2, SessionExecution, ExecutionIsPromised
<1>6. CASE \/ Rest \/ UNCHANGED systemVars
           \/ \E r \in Registrars : RegisterService(r)
  <2> UNCHANGED vars /\ UNCHANGED execution
    BY <1>6 DEF Rest, systemVars, deliveryVars, RegisterService
  <2> QED
    BY <1>1 DEF vars, callVars
<1> QED
  BY <1>2, <1>3, <1>4, <1>5, <1>6 DEF SystemNext

\* A call over this client and this server is a RemoteCall: its request is
\* executed at most once, whatever is cancelled, lost or connected again,
\* and an answer it returns is the outcome of that execution.
THEOREM ImplementsRemoteCallCorrect == SystemSpec => ImplementsRemoteCall
<1>1. SystemInit => Promised!Init
  BY OutcomesDiffer
  DEF SystemInit, DeliveryInit, Init, Promised!Init, Empty, Outcome
<1> QED
  BY <1>1, SystemInvInit, SystemInvStep, SystemStepsOfRemoteCall, PTL
  DEF SystemSpec, ImplementsRemoteCall, Promised!Spec

=============================================================================
