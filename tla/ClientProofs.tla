---------------------------- MODULE ClientProofs ----------------------------
(***************************************************************************)
(* Proofs about Client, for any number of calls, connects and closes.      *)
(***************************************************************************)
EXTENDS Deliveries, TLAPS, FiniteSetTheorems, SequenceTheorems

\* A handler that reads, or is about to put its stream back, has a stream.
HandlerHasStream ==
    \A h \in Connects :
        handlerPc[h] \in {"reading", "ending"} => handlerStream[h] # NoOne

TypeInv == TypeOK /\ HandlerHasStream

LEMMA TypeInit == Init => TypeInv
  BY ClientAssumption
  DEF Init, TypeInv, TypeOK, HandlerHasStream, Ids, Channel, Outcomes, Empty,
      Outcome

\* The part of the type invariant about the transport.
NetworkType ==
    /\ stream \in [Connects -> {"none", "open", "ended", "finished", "down"}]
    /\ wbuf \in [Connects -> Seq(Request)]
    /\ toServer \in [Connects -> Seq(Request)]
    /\ atPeer \in [Connects -> SUBSET Request]
    /\ toClient \in [Connects -> Seq(Response \cup {Garbage})]

LEMMA ReleaseType ==
    ASSUME NetworkType, NEW s \in Connects \cup {NoOne}, Release(s)
    PROVE  NetworkType'
<1>1. CASE s = NoOne
  BY <1>1 DEF Release, NetworkType, networkVars
<1>2. CASE s # NoOne
  <2>1. /\ stream' = [stream EXCEPT
                ![s] = IF @ = "open" THEN "finished" ELSE "down"]
        /\ wbuf' = [wbuf EXCEPT ![s] = <<>>]
        /\ toClient' = [toClient EXCEPT ![s] = <<>>]
        /\ UNCHANGED <<toServer, atPeer>>
    BY <1>2 DEF Release
  <2>2. stream' \in [Connects -> {"none", "open", "ended", "finished", "down"}]
    BY <2>1 DEF NetworkType
  <2> <<>> \in Seq(Request) /\ <<>> \in Seq(Response \cup {Garbage})
    OBVIOUS
  <2>3. wbuf' \in [Connects -> Seq(Request)]
    BY <2>1, Zenon DEF NetworkType
  <2>4. toClient' \in [Connects -> Seq(Response \cup {Garbage})]
    BY <2>1, Zenon DEF NetworkType
  <2> QED
    BY <2>1, <2>2, <2>3, <2>4 DEF NetworkType
<1> QED
  BY <1>1, <1>2

\* Of the responses on a stream that goes down, a first part is kept.
LEMMA TakenDown ==
    ASSUME NEW R, toClient \in [Connects -> Seq(R)], NEW S, TakeDown(S),
           NEW s \in Connects
    PROVE  LET old == toClient[s]
               new == toClient'[s]
           IN  /\ new \in Seq(R) /\ Len(new) \in 0 .. Len(old)
               /\ \A k \in 1 .. Len(new) : new[k] = old[k]
<1>1. CASE s \notin S
  <2> toClient'[s] = toClient[s]
    BY <1>1 DEF TakeDown
  <2> QED
    BY LenProperties
<1>2. CASE s \in S
  <2>1. PICK buffered \in [Connects -> 0 .. Window] :
            /\ buffered[s] <= Len(toClient[s])
            /\ toClient'[s] = SubSeq(toClient[s], 1, buffered[s])
    BY <1>2 DEF TakeDown
  <2>2. PICK n \in Nat : n = buffered[s]
    BY <2>1, ClientAssumption
  <2>3. toClient[s] \in Seq(R)
    OBVIOUS
  <2>4. n <= Len(toClient[s]) /\ toClient'[s] = SubSeq(toClient[s], 1, n)
    BY <2>1, <2>2
  <2> QED
    BY <2>3, <2>4, SubSeqProperties
<1> QED
  BY <1>1, <1>2

LEMMA TakeDownType ==
    ASSUME NetworkType, NEW S, TakeDown(S) PROVE NetworkType'
<1>1. toClient' \in [Connects -> Seq(Response \cup {Garbage})]
  <2>1. \A s \in Connects : toClient'[s] \in Seq(Response \cup {Garbage})
    BY TakenDown DEF NetworkType
  <2>2. PICK f : toClient' = [s \in Connects |-> f[s]]
    BY DEF TakeDown
  <2> QED
    BY <2>1, <2>2
<1>2. \A s \in Connects : <<>> \in Seq(Request)
  OBVIOUS
<1> QED
  BY <1>1, <1>2 DEF TakeDown, NetworkType

LEMMA EnvironmentType == TypeInv /\ Environment => TypeInv'
<1> SUFFICES ASSUME TypeInv, NEW s \in Connects,
                    \/ PeerRead(s) \/ PeerReply(s) \/ PeerGarbage(s)
                    \/ PeerEnds(s) \/ ConnectionLost(s)
             PROVE  TypeInv'
  BY DEF Environment
<1> USE DEF TypeInv, TypeOK, HandlerHasStream, sharedVars, lockVars, callVars,
            taskVars
<1>1. CASE PeerRead(s)
  BY <1>1 DEF PeerRead
<1>2. CASE PeerReply(s)
  <2> PICK m \in atPeer[s], tag \in {"ok", "rpc_failed"} :
          /\ atPeer' = [atPeer EXCEPT ![s] = @ \ {m}]
          /\ toClient' = [toClient EXCEPT
                ![s] = Append(@, [tag |-> tag, id |-> m.id, of |-> m.of])]
    BY <1>2 DEF PeerReply
  <2> m \in Request
    OBVIOUS
  <2> [tag |-> tag, id |-> m.id, of |-> m.of] \in Response
    BY DEF Request, Response
  <2> QED
    BY <1>2 DEF PeerReply
<1>3. CASE PeerGarbage(s)
  BY <1>3 DEF PeerGarbage
<1>4. CASE PeerEnds(s)
  BY <1>4 DEF PeerEnds
<1>5. CASE ConnectionLost(s)
  <2>1. NetworkType'
    BY <1>5, TakeDownType DEF ConnectionLost, TypeInv, TypeOK, NetworkType
  <2> QED
    BY <1>5, <2>1
    DEF ConnectionLost, NetworkType, TypeInv, TypeOK, HandlerHasStream,
        sharedVars, lockVars, callVars, taskVars
<1> QED
  BY <1>1, <1>2, <1>3, <1>4, <1>5

LEMMA CallType == ASSUME TypeInv, NEW c \in Calls, CallStep(c) PROVE TypeInv'
<1> USE DEF TypeInv, TypeOK, HandlerHasStream, sharedVars, lockVars, callVars,
            taskVars, networkVars
<1>1. CASE TakeId(c)
  BY <1>1, ClientAssumption DEF TakeId, WrappingSucc, Ids
<1>2. CASE Register(c)
  BY <1>2 DEF Register, Channel
<1>3. CASE Refuse(c)
  BY <1>3 DEF Refuse, Return, Channel, Outcomes
<1>4. CASE RefuseOversized(c)
  BY <1>4 DEF RefuseOversized, Return, Channel, Outcomes
<1>5. CASE BeginSend(c)
  <2> [id |-> reqId[c], of |-> c] \in Request
    BY DEF Request
  <2> QED
    BY <1>5 DEF BeginSend
<1>6. CASE Flush(c)
  <2> DEFINE s == message_stream
  <2>1. s \in Connects =>
            /\ Append(toServer[s], Head(wbuf[s])) \in Seq(Request)
            /\ Tail(wbuf[s]) \in Seq(Request)
    BY <1>6 DEF Flush
  <2> QED
    BY <1>6, <2>1 DEF Flush
<1>7. CASE FailSend(c)
  BY <1>7 DEF FailSend, Return, Channel, Outcomes
<1>8. CASE Receive(c)
  BY <1>8 DEF Receive, Return, Channel, Outcomes
<1>9. CASE Timeout(c)
  BY <1>9 DEF Timeout, Return, Channel, Outcomes
<1>10. CASE Cancel(c)
  BY <1>10 DEF Cancel, Channel
<1> QED
  BY <1>1, <1>2, <1>3, <1>4, <1>5, <1>6, <1>7, <1>8, <1>9, <1>10
  DEF CallStep, CallProgress

LEMMA ConnectType ==
    ASSUME TypeInv, NEW p \in Connects, ConnectStep(p) PROVE TypeInv'
<1> USE DEF TypeInv, TypeOK, HandlerHasStream, sharedVars, lockVars, callVars,
            networkVars
<1>1. CASE ConnectOpen(p)
  BY <1>1 DEF ConnectOpen
<1>2. CASE ConnectFail(p)
  BY <1>2 DEF ConnectFail
<1>3. CASE ConnectSession(p)
  BY <1>3 DEF ConnectSession
<1>4. CASE ConnectStream(p)
  <2>1. NetworkType'
    BY <1>4, ReleaseType DEF ConnectStream, NetworkType
  <2> QED
    BY <1>4, <2>1 DEF ConnectStream, NetworkType
<1> QED
  BY <1>1, <1>2, <1>3, <1>4 DEF ConnectStep

LEMMA HandlerType ==
    ASSUME TypeInv, NEW h \in Connects, HandlerStep(h) PROVE TypeInv'
<1> USE DEF TypeInv, TypeOK, HandlerHasStream, sharedVars, lockVars, callVars,
            taskVars, networkVars
<1>1. CASE HandlerTake(h)
  BY <1>1 DEF HandlerTake
<1>2. CASE HandlerDispatch(h)
  BY <1>2 DEF HandlerDispatch, Response, Outcome, Answers, Channel
<1>3. CASE HandlerSkip(h)
  BY <1>3 DEF HandlerSkip
<1>4. CASE HandlerEnd(h)
  BY <1>4 DEF HandlerEnd
<1>5. CASE HandlerPutBack(h)
  <2>1. NetworkType'
    BY <1>5, ReleaseType DEF HandlerPutBack, NetworkType
  <2> QED
    BY <1>5, <2>1 DEF HandlerPutBack, NetworkType
<1> QED
  BY <1>1, <1>2, <1>3, <1>4, <1>5 DEF HandlerStep

LEMMA CloseType ==
    ASSUME TypeInv, NEW x \in Closes, CloseStep(x) PROVE TypeInv'
<1> USE DEF TypeInv, TypeOK, HandlerHasStream, sharedVars, lockVars, callVars,
            taskVars, networkVars
<1>1. CASE CloseSession(x)
  BY <1>1 DEF CloseSession, TakeDown
<1>2. CASE CloseStream(x)
  <2>1. NetworkType'
    BY <1>2, ReleaseType DEF CloseStream, NetworkType
  <2> QED
    BY <1>2, <2>1 DEF CloseStream, NetworkType
<1>3. CASE ClosePending(x)
  BY <1>3 DEF ClosePending, Channel
<1> QED
  BY <1>1, <1>2, <1>3 DEF CloseStep

LEMMA DropType == ASSUME TypeInv, DropClient PROVE TypeInv'
<1>1. PICK S : TakeDown(S)
  BY DEF DropClient
<1>2. /\ alive' = FALSE
      /\ UNCHANGED <<next_id, pending, session, message_stream, sessionLock,
                     streamLock, callPc, reqId, rx, result, connectPc,
                     closePc, handlerPc, handlerStream>>
  BY DEF DropClient, lockVars, callVars, taskVars
<1>3. NetworkType
  BY DEF TypeInv, TypeOK, NetworkType
<1>4. NetworkType'
  BY <1>1, <1>3, TakeDownType
<1>5. HandlerHasStream'
  BY <1>2 DEF TypeInv, HandlerHasStream
<1>6. TypeOK'
  BY <1>2, <1>4 DEF TypeInv, TypeOK, NetworkType
<1> QED
  BY <1>5, <1>6 DEF TypeInv

LEMMA TypeStill == TypeInv /\ UNCHANGED vars => TypeInv'
<1> SUFFICES ASSUME TypeInv, UNCHANGED vars PROVE TypeInv'
  OBVIOUS
<1>1. /\ UNCHANGED <<alive, next_id, pending, session, message_stream>>
      /\ UNCHANGED <<sessionLock, streamLock, callPc, reqId, rx, result>>
      /\ UNCHANGED <<connectPc, closePc, handlerPc, handlerStream>>
      /\ UNCHANGED <<stream, wbuf, toServer, atPeer, toClient>>
  BY DEF vars, sharedVars, lockVars, callVars, taskVars, networkVars
<1>2. HandlerHasStream'
  BY <1>1 DEF TypeInv, HandlerHasStream
<1>3. TypeOK'
  BY <1>1 DEF TypeInv, TypeOK
<1> QED
  BY <1>2, <1>3 DEF TypeInv

LEMMA TypeStep == TypeInv /\ [Next]_vars => TypeInv'
  BY TypeStill, EnvironmentType, CallType, ConnectType, HandlerType,
     CloseType, DropType
  DEF Next, Finished

\* Type correctness: no task takes the client's shared state out of its type,
\* and the id counter stays within its width.
THEOREM TypeCorrect == Spec => []TypeOK
BY TypeInit, TypeStep, PTL DEF Spec, TypeInv

-----------------------------------------------------------------------------
(* Whose id is whose.                                                      *)

\* The calls that have taken an id.
Issued == {c \in Calls : callPc[c] # "idle"}

\* Ids are handed out in order, so no two calls share one.
DistinctIds ==
    /\ \A c \in Issued : reqId[c] < Cardinality(Issued)
    /\ \A c, d \in Issued : c # d => reqId[c] # reqId[d]
    /\ Cardinality(Issued) < IdSpace => next_id = Cardinality(Issued)

\* The messages that carry the id of the call they are of.
OwnRequests  == {m \in Request : m.of \in Issued /\ m.id = reqId[m.of]}
OwnResponses ==
    {Garbage} \cup {m \in Response : m.of \in Issued /\ m.id = reqId[m.of]}

OwnMessages ==
    \A s \in Connects :
        /\ wbuf[s] \in Seq(OwnRequests)
        /\ toServer[s] \in Seq(OwnRequests)
        /\ atPeer[s] \subseteq OwnRequests
        /\ toClient[s] \in Seq(OwnResponses)

\* The pending map holds a call only under the id that call took.
PendingIsOwn ==
    \A i \in Ids : pending[i] # NoOne =>
        pending[i] \in Issued /\ reqId[pending[i]] = i

ChannelMatchesCall == \A c \in Calls : rx[c] \in Answers => rx[c].of = c

IdInv ==
    /\ TypeInv
    /\ DistinctIds
    /\ OwnMessages
    /\ PendingIsOwn
    /\ ChannelMatchesCall
    /\ ResponseMatchesCall
    /\ WaiterIsPending

LEMMA IdInit == Init => IdInv
<1> SUFFICES ASSUME Init PROVE IdInv
  OBVIOUS
<1>1. TypeInv
  BY TypeInit
<1>2. Issued = {}
  BY DEF Init, Issued
<1>3. DistinctIds
  BY <1>2, FS_EmptySet, ClientAssumption DEF DistinctIds, Init
<1>4. OwnMessages
  BY DEF OwnMessages, Init
<1>5. PendingIsOwn /\ ChannelMatchesCall /\ ResponseMatchesCall
      /\ WaiterIsPending
  BY ClientAssumption
  DEF Init, PendingIsOwn, ChannelMatchesCall, ResponseMatchesCall,
      WaiterIsPending, Listening, Answers, Empty, Outcome
<1> QED
  BY <1>1, <1>3, <1>4, <1>5 DEF IdInv

\* Only TakeId hands out an id; every other step leaves the ids alone.
SameIds == Issued' = Issued /\ UNCHANGED <<reqId, next_id>>

LEMMA StepsKeepIds ==
    ASSUME TypeInv, Next, \A c \in Calls : ~ TakeId(c)
    PROVE  SameIds
<1> USE DEF SameIds, Issued, sharedVars, lockVars, callVars, taskVars,
            networkVars
<1>1. ASSUME NEW c \in Calls, CallStep(c) PROVE SameIds
  BY <1>1 DEF CallStep, CallProgress, Register, Refuse, RefuseOversized,
              BeginSend, Flush, FailSend, Receive, Timeout, Cancel, Return,
              TypeInv, TypeOK
<1>2. ASSUME NEW p \in Connects, ConnectStep(p) PROVE SameIds
  BY <1>2 DEF ConnectStep, ConnectOpen, ConnectFail, ConnectSession,
              ConnectStream
<1>3. ASSUME NEW h \in Connects, HandlerStep(h) PROVE SameIds
  BY <1>3 DEF HandlerStep, HandlerTake, HandlerDispatch, HandlerSkip,
              HandlerEnd, HandlerPutBack
<1>4. ASSUME NEW x \in Closes, CloseStep(x) PROVE SameIds
  BY <1>4 DEF CloseStep, CloseSession, CloseStream, ClosePending
<1>5. CASE DropClient \/ Finished
  BY <1>5 DEF DropClient, Finished, vars
<1>6. CASE Environment
  BY <1>6 DEF Environment, PeerRead, PeerReply, PeerGarbage, PeerEnds,
              ConnectionLost
<1> QED
  BY <1>1, <1>2, <1>3, <1>4, <1>5, <1>6 DEF Next

LEMMA TakeIdDistinct ==
    ASSUME TypeInv, DistinctIds, NEW c \in Calls, TakeId(c)
    PROVE  DistinctIds'
<1> DEFINE n == Cardinality(Issued)
<1>1. c \notin Issued /\ Issued' = Issued \cup {c}
  BY DEF TakeId, Issued, TypeInv, TypeOK
<1>2. IsFiniteSet(Issued) /\ n \in Nat
  BY ClientAssumption, FS_Subset, FS_CardinalityType DEF Issued
<1>3. Cardinality(Issued') = n + 1
  BY <1>1, <1>2, FS_AddElement
<1>4. n + 1 <= Cardinality(Calls)
  <2> Issued' \subseteq Calls
    BY <1>1 DEF Issued
  <2> QED
    BY <1>3, FS_Subset, ClientAssumption
<1>5. n < IdSpace /\ next_id = n
  <2> Cardinality(Calls) \in Nat
    BY ClientAssumption, FS_CardinalityType
  <2> QED
    BY <1>2, <1>4, ClientAssumption DEF DistinctIds
<1>6. reqId' = [reqId EXCEPT ![c] = n]
  BY <1>5 DEF TakeId
<1>7. next_id' = IF n = IdSpace - 1 THEN 0 ELSE n + 1
  BY <1>5 DEF TakeId, WrappingSucc
<1>8. \A d \in Issued : reqId[d] \in Nat /\ reqId[d] < n
  BY DEF DistinctIds, Issued, TypeInv, TypeOK, Ids
<1>9. \A d \in Issued' : reqId'[d] = IF d = c THEN n ELSE reqId[d]
  BY <1>1, <1>6 DEF TypeInv, TypeOK, Issued
<1> HIDE DEF n
<1>10. \A d \in Issued' : reqId'[d] < n + 1
  BY <1>1, <1>2, <1>8, <1>9
<1>11. \A d, e \in Issued' : d # e => reqId'[d] # reqId'[e]
  <2> SUFFICES ASSUME NEW d \in Issued', NEW e \in Issued', d # e
               PROVE  reqId'[d] # reqId'[e]
    OBVIOUS
  <2>1. CASE d = c
    BY <2>1, <1>1, <1>2, <1>8, <1>9
  <2>2. CASE e = c
    BY <2>2, <1>1, <1>2, <1>8, <1>9
  <2>3. CASE d # c /\ e # c
    BY <2>3, <1>1, <1>9 DEF DistinctIds
  <2> QED
    BY <2>1, <2>2, <2>3
<1>12. n + 1 < IdSpace => next_id' = n + 1
  BY <1>2, <1>7, ClientAssumption
<1> QED
  BY <1>3, <1>10, <1>11, <1>12 DEF DistinctIds

LEMMA DistinctStep == ASSUME TypeInv, DistinctIds, Next PROVE DistinctIds'
<1>1. CASE \E c \in Calls : TakeId(c)
  BY <1>1, TakeIdDistinct
<1>2. CASE \A c \in Calls : ~ TakeId(c)
  <2> SameIds
    BY <1>2, StepsKeepIds
  <2> QED
    BY DEF SameIds, DistinctIds
<1> QED
  BY <1>1, <1>2

\* Own messages stay own messages when the ids do not change ...
LEMMA SameOwn ==
    ASSUME SameIds
    PROVE  OwnRequests' = OwnRequests /\ OwnResponses' = OwnResponses
  BY DEF SameIds, OwnRequests, OwnResponses

LEMMA SeqMonotone ==
    ASSUME NEW S, NEW T, S \subseteq T, NEW q \in Seq(S) PROVE q \in Seq(T)
  OBVIOUS

\* ... and when a further call takes one.
LEMMA TakeIdOwn ==
    ASSUME TypeInv, OwnMessages, NEW c \in Calls, TakeId(c)
    PROVE  OwnMessages'
<1>1. OwnRequests \subseteq OwnRequests' /\ OwnResponses \subseteq OwnResponses'
  BY DEF TakeId, OwnRequests, OwnResponses, Issued, TypeInv, TypeOK, Request,
         Response
<1>2. UNCHANGED <<wbuf, toServer, atPeer, toClient>>
  BY DEF TakeId, networkVars
<1> QED
  BY <1>1, <1>2, SeqMonotone DEF OwnMessages

LEMMA ReleaseOwn ==
    ASSUME OwnMessages, TypeInv, SameIds, NEW s \in Connects \cup {NoOne},
           Release(s)
    PROVE  OwnMessages'
<1>1. OwnRequests' = OwnRequests /\ OwnResponses' = OwnResponses
  BY SameOwn
<1>2. CASE s = NoOne
  BY <1>1, <1>2 DEF Release, networkVars, OwnMessages
<1>3. CASE s # NoOne
  <2>1. /\ wbuf' = [wbuf EXCEPT ![s] = <<>>]
        /\ toClient' = [toClient EXCEPT ![s] = <<>>]
        /\ UNCHANGED <<toServer, atPeer>>
    BY <1>3 DEF Release
  <2>2. <<>> \in Seq(OwnRequests) /\ <<>> \in Seq(OwnResponses)
    OBVIOUS
  <2>3. \A t \in Connects :
            /\ wbuf'[t] = IF t = s THEN <<>> ELSE wbuf[t]
            /\ toClient'[t] = IF t = s THEN <<>> ELSE toClient[t]
    BY <2>1 DEF TypeInv, TypeOK
  <2> QED
    BY <1>1, <2>1, <2>2, <2>3 DEF OwnMessages
<1> QED
  BY <1>2, <1>3

LEMMA TakeDownOwn ==
    ASSUME OwnMessages, TypeInv, SameIds, NEW S, TakeDown(S)
    PROVE  OwnMessages'
<1>1. OwnRequests' = OwnRequests /\ OwnResponses' = OwnResponses
  BY SameOwn
<1>2. toClient \in [Connects -> Seq(OwnResponses)]
  BY DEF OwnMessages, TypeInv, TypeOK
<1>3. \A s \in Connects : toClient'[s] \in Seq(OwnResponses)
  BY <1>2, TakenDown
<1> QED
  BY <1>1, <1>3 DEF TakeDown, OwnMessages

LEMMA EnvironmentOwn ==
    ASSUME OwnMessages, TypeInv, SameIds, Environment
    PROVE  OwnMessages'
<1> PICK s \in Connects :
        \/ PeerRead(s) \/ PeerReply(s) \/ PeerGarbage(s)
        \/ PeerEnds(s) \/ ConnectionLost(s)
  BY DEF Environment
<1> USE DEF OwnMessages, TypeInv, TypeOK
<1>1. OwnRequests' = OwnRequests /\ OwnResponses' = OwnResponses
  BY SameOwn
<1>2. CASE PeerRead(s)
  BY <1>1, <1>2 DEF PeerRead
<1>3. CASE PeerReply(s)
  <2> PICK m \in atPeer[s], tag \in {"ok", "rpc_failed"} :
          /\ atPeer' = [atPeer EXCEPT ![s] = @ \ {m}]
          /\ toClient' = [toClient EXCEPT
                ![s] = Append(@, [tag |-> tag, id |-> m.id, of |-> m.of])]
    BY <1>3 DEF PeerReply
  <2> [tag |-> tag, id |-> m.id, of |-> m.of] \in OwnResponses
    BY DEF OwnRequests, OwnResponses, Request, Response
  <2> QED
    BY <1>1, <1>3 DEF PeerReply
<1>4. CASE PeerGarbage(s)
  <2> Garbage \in OwnResponses
    BY DEF OwnResponses
  <2> QED
    BY <1>1, <1>4 DEF PeerGarbage
<1>5. CASE PeerEnds(s)
  BY <1>1, <1>5 DEF PeerEnds
<1>6. CASE ConnectionLost(s)
  BY <1>6, TakeDownOwn DEF ConnectionLost
<1> QED
  BY <1>2, <1>3, <1>4, <1>5, <1>6

LEMMA CallOwn ==
    ASSUME OwnMessages, TypeInv, NEW c \in Calls, CallStep(c), SameIds
    PROVE  OwnMessages'
<1>1. OwnRequests' = OwnRequests /\ OwnResponses' = OwnResponses
  BY SameOwn
<1>2. CASE BeginSend(c)
  <2>1. [id |-> reqId[c], of |-> c] \in OwnRequests
    BY <1>2 DEF BeginSend, OwnRequests, Request, Issued, TypeInv, TypeOK
  <2> QED
    BY <1>1, <1>2, <2>1 DEF BeginSend, OwnMessages, TypeInv, TypeOK
<1>3. CASE Flush(c)
  <2> DEFINE s == message_stream
  <2>1. s \in Connects =>
            /\ Append(toServer[s], Head(wbuf[s])) \in Seq(OwnRequests)
            /\ Tail(wbuf[s]) \in Seq(OwnRequests)
    BY <1>3 DEF Flush, OwnMessages
  <2> QED
    BY <1>1, <1>3, <2>1 DEF Flush, OwnMessages, TypeInv, TypeOK
<1>4. CASE ~ BeginSend(c) /\ ~ Flush(c)
  <2> UNCHANGED networkVars
    BY <1>4 DEF CallStep, CallProgress, TakeId, Register, Refuse,
                RefuseOversized, FailSend, Receive, Timeout, Cancel, Return
  <2> QED
    BY <1>1 DEF OwnMessages, networkVars
<1> QED
  BY <1>2, <1>3, <1>4

LEMMA TaskOwn ==
    ASSUME OwnMessages, TypeInv, SameIds,
           \/ \E p \in Connects : ConnectStep(p) \/ HandlerStep(p)
           \/ \E x \in Closes : CloseStep(x)
           \/ DropClient
           \/ Finished
    PROVE  OwnMessages'
<1>1. OwnRequests' = OwnRequests /\ OwnResponses' = OwnResponses
  BY SameOwn
<1>2. ASSUME NEW h \in Connects, HandlerDispatch(h) \/ HandlerSkip(h)
      PROVE  OwnMessages'
  <2> DEFINE t == handlerStream[h]
  <2>1. /\ toClient[t] # <<>>
        /\ toClient' = [toClient EXCEPT ![t] = Tail(@)]
        /\ UNCHANGED <<wbuf, toServer, atPeer>>
    BY <1>2 DEF HandlerDispatch, HandlerSkip
  <2>2. t \in Connects => Tail(toClient[t]) \in Seq(OwnResponses)
    BY <2>1 DEF OwnMessages
  <2>3. \A s \in Connects :
            toClient'[s] = IF s = t THEN Tail(toClient[t]) ELSE toClient[s]
    BY <2>1 DEF TypeInv, TypeOK
  <2> HIDE DEF t
  <2> QED
    BY <1>1, <2>1, <2>2, <2>3 DEF OwnMessages
<1>3. ASSUME Release(message_stream) PROVE OwnMessages'
  BY <1>3, ReleaseOwn DEF TypeInv, TypeOK
<1>4. ASSUME NEW S, TakeDown(S) PROVE OwnMessages'
  BY <1>4, TakeDownOwn
<1>5. ASSUME UNCHANGED <<wbuf, toServer, atPeer, toClient>>
      PROVE  OwnMessages'
  BY <1>1, <1>5 DEF OwnMessages
<1>6. ASSUME NEW p \in Connects, ConnectStep(p) PROVE OwnMessages'
  BY <1>3, <1>5, <1>6
  DEF ConnectStep, ConnectOpen, ConnectFail, ConnectSession, ConnectStream,
      networkVars
<1>7. ASSUME NEW h \in Connects, HandlerStep(h) PROVE OwnMessages'
  BY <1>2, <1>3, <1>5, <1>7
  DEF HandlerStep, HandlerTake, HandlerEnd, HandlerPutBack, networkVars
<1>8. ASSUME NEW x \in Closes, CloseStep(x) PROVE OwnMessages'
  BY <1>3, <1>4, <1>5, <1>8
  DEF CloseStep, CloseSession, CloseStream, ClosePending, networkVars
<1>9. CASE DropClient \/ Finished
  BY <1>4, <1>5, <1>9 DEF DropClient, Finished, vars, networkVars
<1> QED
  BY <1>6, <1>7, <1>8, <1>9

LEMMA OwnStep == ASSUME OwnMessages, TypeInv, Next PROVE OwnMessages'
<1>1. CASE \E c \in Calls : TakeId(c)
  BY <1>1, TakeIdOwn
<1>2. CASE \A c \in Calls : ~ TakeId(c)
  BY <1>2, StepsKeepIds, EnvironmentOwn, CallOwn, TaskOwn DEF Next
<1> QED
  BY <1>1, <1>2

-----------------------------------------------------------------------------
(* Answers reach the call they are meant for.                              *)

\* What the remaining conjuncts of IdInv speak of.
callState == <<pending, callPc, reqId, rx, result>>

\* The conjuncts of IdInv about the pending map, the channels and results.
AnswersInv ==
    PendingIsOwn /\ ChannelMatchesCall /\ ResponseMatchesCall
        /\ WaiterIsPending

LEMMA AnswersUnchanged == AnswersInv /\ UNCHANGED callState => AnswersInv'
  BY DEF AnswersInv, PendingIsOwn, ChannelMatchesCall, ResponseMatchesCall,
         WaiterIsPending, callState, Issued, Listening

LEMMA TakeIdAnswers ==
    ASSUME AnswersInv, TypeInv, NEW c \in Calls, TakeId(c)
    PROVE  AnswersInv'
<1> USE DEF TakeId, AnswersInv, TypeInv, TypeOK, Issued
<1>1. PendingIsOwn'
  BY DEF PendingIsOwn
<1>2. ChannelMatchesCall' /\ ResponseMatchesCall'
  BY DEF ChannelMatchesCall, ResponseMatchesCall
<1>3. WaiterIsPending'
  BY DEF WaiterIsPending, Listening
<1> QED
  BY <1>1, <1>2, <1>3

LEMMA RegisterAnswers ==
    ASSUME AnswersInv, DistinctIds, TypeInv, NEW c \in Calls, Register(c)
    PROVE  AnswersInv'
<1> USE DEF Register, AnswersInv, TypeInv, TypeOK, Issued
<1>1. PendingIsOwn'
  BY DEF PendingIsOwn
<1>2. ChannelMatchesCall' /\ ResponseMatchesCall'
  BY ClientAssumption
  DEF ChannelMatchesCall, ResponseMatchesCall, Answers, ConnectionClosed,
      Outcome
<1>3. WaiterIsPending'
  <2> SUFFICES ASSUME NEW d \in Calls, Listening(d)', rx'[d] = Empty
               PROVE  pending'[reqId[d]] = d
    BY DEF WaiterIsPending
  <2>1. CASE d = c
    BY <2>1
  <2>2. CASE d # c
    <3>1. Listening(d) /\ rx[d] = Empty
      BY <2>2 DEF Listening, Empty, ConnectionClosed, Outcome
    <3>2. pending[reqId[d]] = d
      BY <3>1 DEF WaiterIsPending
    <3>3. reqId[c] # reqId[d]
      BY <2>2, <3>1 DEF DistinctIds, Listening
    <3> QED
      BY <3>2, <3>3
  <2> QED
    BY <2>1, <2>2
<1> QED
  BY <1>1, <1>2, <1>3

\* A call that returns takes over what its channel holds, or an error.
LEMMA ReturnAnswers ==
    ASSUME AnswersInv, TypeInv, NEW c \in Calls, callPc[c] # "idle",
           NEW o \in Outcomes, o \in Answers => o = rx[c], Return(c, o)
    PROVE  AnswersInv'
<1> USE DEF Return, AnswersInv, TypeInv, TypeOK, Issued, sharedVars
<1>1. PendingIsOwn'
  BY DEF PendingIsOwn
<1>2. ChannelMatchesCall' /\ ResponseMatchesCall'
  BY DEF ChannelMatchesCall, ResponseMatchesCall, Answers, Empty, Outcome
<1>3. WaiterIsPending'
  BY DEF WaiterIsPending, Listening
<1> QED
  BY <1>1, <1>2, <1>3

LEMMA CallAnswers ==
    ASSUME AnswersInv, DistinctIds, TypeInv, NEW c \in Calls, CallStep(c)
    PROVE  AnswersInv'
<1>1. CASE TakeId(c)
  BY <1>1, TakeIdAnswers
<1>2. CASE Register(c)
  BY <1>2, RegisterAnswers
<1>3. CASE Refuse(c) \/ RefuseOversized(c) \/ FailSend(c) \/ Timeout(c)
  <2>1. PICK o \in {ConnectionClosed, WebTransport, TimedOut} : Return(c, o)
    BY <1>3 DEF Refuse, RefuseOversized, FailSend, Timeout
  <2>2. o \in Outcomes /\ o \notin Answers
    BY DEF Outcomes, Channel, Answers, ConnectionClosed, WebTransport,
           TimedOut, Outcome
  <2>3. callPc[c] # "idle"
    BY <1>3 DEF Refuse, RefuseOversized, FailSend, Timeout
  <2> QED
    BY <2>1, <2>2, <2>3, ReturnAnswers
<1>4. CASE Receive(c)
  <2>1. Return(c, rx[c]) /\ callPc[c] # "idle"
    BY <1>4 DEF Receive
  <2>2. rx[c] \in Outcomes
    BY DEF TypeInv, TypeOK, Outcomes
  <2> QED
    BY <2>1, <2>2, ReturnAnswers
<1>5. CASE BeginSend(c) \/ Flush(c)
  <2>1. UNCHANGED <<pending, reqId, rx, result>>
    BY <1>5 DEF BeginSend, Flush, sharedVars
  <2>2. \E pc \in {"sending", "waiting"} : callPc' = [callPc EXCEPT ![c] = pc]
    BY <1>5 DEF BeginSend, Flush
  <2>3. Listening(c) /\ callPc[c] # "idle"
    BY <1>5 DEF BeginSend, Flush, Listening
  <2>4. \A d \in Calls : /\ Listening(d)' <=> Listening(d)
                         /\ callPc'[d] = "idle" <=> callPc[d] = "idle"
    BY <2>2, <2>3 DEF Listening, TypeInv, TypeOK
  <2> QED
    BY <2>1, <2>4 DEF AnswersInv, PendingIsOwn, ChannelMatchesCall, Issued,
                ResponseMatchesCall, WaiterIsPending
<1>6. CASE Cancel(c)
  <2> USE <1>6 DEF Cancel, AnswersInv, TypeInv, TypeOK, Issued, sharedVars
  <2>1. PendingIsOwn'
    BY DEF PendingIsOwn
  <2>2. ChannelMatchesCall' /\ ResponseMatchesCall'
    BY ClientAssumption
    DEF ChannelMatchesCall, ResponseMatchesCall, Answers, Empty, Outcome
  <2>3. WaiterIsPending'
    BY DEF WaiterIsPending, Listening
  <2> QED
    BY <2>1, <2>2, <2>3
<1> QED
  BY <1>1, <1>2, <1>3, <1>4, <1>5, <1>6 DEF CallStep, CallProgress

\* The sender under a response's id is the one of the call the response is
\* of, since both took that id.
LEMMA DispatchAnswers ==
    ASSUME AnswersInv, DistinctIds, OwnMessages, TypeInv,
           NEW h \in Connects, HandlerDispatch(h)
    PROVE  AnswersInv'
<1> DEFINE m == Head(toClient[handlerStream[h]])
<1> USE DEF AnswersInv, TypeInv, TypeOK
<1>1. handlerStream[h] \in Connects
  BY DEF HandlerDispatch, HandlerHasStream
<1>2. m \in OwnResponses \ {Garbage}
  BY <1>1 DEF HandlerDispatch, OwnMessages
<1>3. m \in Response /\ m.of \in Issued /\ m.id = reqId[m.of] /\ m.id \in Ids
  BY <1>2 DEF OwnResponses, Response
<1>4. /\ pending' = [pending EXCEPT ![m.id] = NoOne]
      /\ rx' = [c \in Calls |-> IF pending[m.id] = c /\ Listening(c)
                                THEN Outcome(m.tag, m.of) ELSE rx[c]]
      /\ UNCHANGED <<callPc, reqId, result>>
  BY DEF HandlerDispatch
<1> HIDE DEF m
<1>5. \A c \in Calls : pending[m.id] = c => c = m.of
  <2> SUFFICES ASSUME NEW c \in Calls, pending[m.id] = c PROVE c = m.of
    OBVIOUS
  <2>1. c # NoOne
    BY ClientAssumption
  <2>2. c \in Issued /\ reqId[c] = m.id
    BY <1>3, <2>1 DEF PendingIsOwn
  <2> QED
    BY <1>3, <2>2 DEF DistinctIds
<1>6. Outcome(m.tag, m.of) # Empty /\ Outcome(m.tag, m.of).of = m.of
  BY <1>3 DEF Outcome, Empty, Response
<1>7. PendingIsOwn'
  BY <1>3, <1>4 DEF PendingIsOwn, Issued
<1>8. ChannelMatchesCall' /\ ResponseMatchesCall'
  BY <1>4, <1>5, <1>6 DEF ChannelMatchesCall, ResponseMatchesCall
<1>9. WaiterIsPending'
  <2> SUFFICES ASSUME NEW c \in Calls, Listening(c), rx'[c] = Empty
               PROVE  pending'[reqId[c]] = c
    BY <1>4 DEF WaiterIsPending, Listening
  <2>1. pending[m.id] # c /\ rx[c] = Empty
    BY <1>4, <1>6
  <2>2. pending[reqId[c]] = c
    BY <2>1 DEF WaiterIsPending
  <2> QED
    BY <1>3, <1>4, <2>1, <2>2
<1> QED
  BY <1>7, <1>8, <1>9

LEMMA ClosePendingAnswers ==
    ASSUME AnswersInv, TypeInv, NEW x \in Closes, ClosePending(x)
    PROVE  AnswersInv'
<1> USE DEF ClosePending, AnswersInv, TypeInv, TypeOK
<1>1. PendingIsOwn'
  BY DEF PendingIsOwn
<1>2. ChannelMatchesCall' /\ ResponseMatchesCall'
  BY DEF ChannelMatchesCall, ResponseMatchesCall, Answers, ConnectionClosed,
         Outcome
<1>3. WaiterIsPending'
  BY DEF WaiterIsPending, Listening, ConnectionClosed, Empty, Outcome
<1> QED
  BY <1>1, <1>2, <1>3

LEMMA AnswersStep == ASSUME IdInv, Next PROVE AnswersInv'
<1> AnswersInv /\ TypeInv /\ DistinctIds /\ OwnMessages
  BY DEF IdInv, AnswersInv
<1>1. ASSUME NEW c \in Calls, CallStep(c) PROVE AnswersInv'
  BY <1>1, CallAnswers
<1>2. ASSUME NEW p \in Connects, ConnectStep(p) PROVE AnswersInv'
  BY <1>2, AnswersUnchanged
  DEF ConnectStep, ConnectOpen, ConnectFail, ConnectSession, ConnectStream,
      callState, callVars, sharedVars
<1>3. ASSUME NEW h \in Connects, HandlerStep(h) PROVE AnswersInv'
  BY <1>3, AnswersUnchanged, DispatchAnswers
  DEF HandlerStep, HandlerTake, HandlerSkip, HandlerEnd, HandlerPutBack,
      callState, callVars, sharedVars
<1>4. ASSUME NEW x \in Closes, CloseStep(x) PROVE AnswersInv'
  BY <1>4, AnswersUnchanged, ClosePendingAnswers
  DEF CloseStep, CloseSession, CloseStream, callState, callVars
<1>5. CASE DropClient \/ Finished \/ Environment
  BY <1>5, AnswersUnchanged
  DEF DropClient, Finished, vars, Environment, PeerRead, PeerReply,
      PeerGarbage, PeerEnds, ConnectionLost, callState, callVars, sharedVars
<1> QED
  BY <1>1, <1>2, <1>3, <1>4, <1>5 DEF Next

LEMMA IdStep == IdInv /\ [Next]_vars => IdInv'
<1>1. ASSUME IdInv, Next PROVE IdInv'
  BY <1>1, TypeStep, DistinctStep, OwnStep, AnswersStep DEF IdInv, AnswersInv
<1>2. ASSUME IdInv, UNCHANGED vars PROVE IdInv'
  <2> TypeInv'
    BY <1>2, TypeStep DEF IdInv
  <2> DistinctIds' /\ OwnMessages'
    BY <1>2
    DEF IdInv, DistinctIds, OwnMessages, Issued, OwnRequests, OwnResponses,
        vars, sharedVars, callVars, networkVars
  <2> AnswersInv'
    BY <1>2, AnswersUnchanged
    DEF IdInv, AnswersInv, callState, vars, sharedVars, callVars
  <2> QED
    BY DEF IdInv, AnswersInv
<1> QED
  BY <1>1, <1>2

\* A call that returns an answer returns the answer to its own request.
THEOREM ResponseMatchesCallCorrect == Spec => []ResponseMatchesCall
BY IdInit, IdStep, PTL DEF Spec, IdInv

\* A call that may still be answered is in the pending map under its id.
THEOREM WaiterIsPendingCorrect == Spec => []WaiterIsPending
BY IdInit, IdStep, PTL DEF Spec, IdInv

\* Closing leaves no call without an outcome: it drains the pending map, and
\* every call that may still be answered is in it.
THEOREM CloseWakesEveryWaiterCorrect == Spec => CloseWakesEveryWaiter
<1>1. IdInv /\ [Next]_vars =>
          [\A x \in Closes : ClosePending(x) =>
              \A c \in Calls : Listening(c) => rx'[c] # Empty]_vars
  <2> SUFFICES ASSUME IdInv, NEW x \in Closes, ClosePending(x),
                      NEW c \in Calls, Listening(c)
               PROVE  rx'[c] # Empty
    OBVIOUS
  <2>1. rx[c] = Empty => \E i \in Ids : pending[i] = c
    BY DEF IdInv, TypeInv, TypeOK, WaiterIsPending
  <2>2. ConnectionClosed # Empty
    BY DEF ConnectionClosed, Empty, Outcome
  <2> QED
    BY <2>1, <2>2 DEF ClosePending
<1> QED
  BY IdInit, IdStep, <1>1, PTL DEF Spec, CloseWakesEveryWaiter

-----------------------------------------------------------------------------
(* The stream mutex.                                                       *)

\* The close that has emptied the slot holds the stream mutex.
CloserHoldsStream ==
    \A x \in Closes : closePc[x] = "stream_closed" => streamLock = x

LockInv == TypeInv /\ CloserHoldsStream /\ SenderHoldsStream

\* What LockInv speaks of besides the types.
slotState == <<callPc, closePc, streamLock, message_stream, wbuf>>

LEMMA LockInit == Init => LockInv
  BY TypeInit DEF Init, LockInv, CloserHoldsStream, SenderHoldsStream

\* While nobody holds the mutex nobody is in a critical section.
LEMMA FreeMutex ==
    ASSUME LockInv, streamLock = NoOne
    PROVE  /\ \A c \in Calls : callPc[c] # "sending"
           /\ \A x \in Closes : closePc[x] # "stream_closed"
  BY ClientAssumption DEF LockInv, CloserHoldsStream, SenderHoldsStream

LEMMA LastOfAppend ==
    ASSUME NEW S, NEW q \in Seq(S), NEW r \in S
    PROVE  Append(q, r) # <<>> /\ Append(q, r)[Len(Append(q, r))] = r
  BY AppendProperties

LEMMA LastOfTail ==
    ASSUME NEW S, NEW q \in Seq(S), q # <<>>, Len(q) # 1
    PROVE  Tail(q) # <<>> /\ Tail(q)[Len(Tail(q))] = q[Len(q)]
<1>0. Len(q) \in Nat \ {0}
  BY EmptySeq
<1>1. Len(q) \in Nat /\ Len(q) > 1
  <2> \A n \in Nat \ {0} : n # 1 => n > 1
    OBVIOUS
  <2> QED
    BY <1>0, Zenon
<1>2. Len(Tail(q)) = Len(q) - 1
  BY HeadTailProperties
<1>3. Tail(q)[Len(q) - 1] = q[Len(q)]
  BY <1>1, HeadTailProperties
<1>4. Tail(q) # <<>>
  <2> Tail(q) \in Seq(S) /\ Len(Tail(q)) # 0
    BY <1>1, <1>2, HeadTailProperties
  <2> QED
    BY EmptySeq
<1> QED
  BY <1>2, <1>3, <1>4

LEMMA BeginSendLock ==
    ASSUME LockInv, NEW c \in Calls, BeginSend(c)
    PROVE  CloserHoldsStream' /\ SenderHoldsStream'
<1> USE DEF BeginSend, LockInv, TypeInv, TypeOK
<1>1. CloserHoldsStream'
  BY FreeMutex DEF CloserHoldsStream, taskVars
<1>2. SenderHoldsStream'
  <2> DEFINE s == message_stream
             r == [id |-> reqId[c], of |-> c]
             q == wbuf[s]
  <2>1. s \in Connects /\ message_stream' = s /\ q \in Seq(Request)
    BY DEF sharedVars
  <2>2. wbuf'[s] = Append(q, r) /\ r.of = c /\ r \in Request
    BY <2>1 DEF Request
  <2>3. Append(q, r) # <<>> /\ Append(q, r)[Len(Append(q, r))] = r
    <3> HIDE DEF q, r, BeginSend, LockInv, TypeInv, TypeOK
    <3> QED
      BY <2>1, <2>2, LastOfAppend, Zenon
  <2>4. streamLock' = c
    OBVIOUS
  <2>5. \A d \in Calls : callPc'[d] = "sending" => d = c
    BY FreeMutex
  <2> QED
    BY <2>1, <2>2, <2>3, <2>4, <2>5 DEF SenderHoldsStream
<1> QED
  BY <1>1, <1>2

LEMMA FlushLock ==
    ASSUME LockInv, NEW c \in Calls, Flush(c)
    PROVE  CloserHoldsStream' /\ SenderHoldsStream'
<1> USE DEF Flush, LockInv, TypeInv, TypeOK
<1> DEFINE s == message_stream
           q == wbuf[s]
<1>1. s \in Connects /\ streamLock = c /\ q # <<>> /\ q[Len(q)].of = c
  BY DEF SenderHoldsStream
<1>2. \A d \in Calls : callPc[d] = "sending" => d = c
  BY <1>1 DEF SenderHoldsStream
<1>3. \A x \in Closes : closePc'[x] # "stream_closed"
  BY <1>1, ClientAssumption DEF CloserHoldsStream, taskVars
<1>4. \A d \in Calls : callPc'[d] = "sending" => d = c /\ Len(q) # 1
  BY <1>2
<1>5. Len(q) # 1 => /\ Tail(q) # <<>>
                    /\ Tail(q)[Len(Tail(q))] = q[Len(q)]
  <2> q \in Seq(Request)
    BY <1>1
  <2> HIDE DEF q
  <2> QED
    BY <1>1, LastOfTail
<1>6. wbuf'[s] = Tail(q) /\ message_stream' = s
  BY <1>1 DEF sharedVars
<1>7. Len(q) # 1 => streamLock' = c
  BY <1>1
<1> QED
  BY <1>1, <1>3, <1>4, <1>5, <1>6, <1>7
  DEF SenderHoldsStream, CloserHoldsStream

\* A call that gives up leaves the slot and the write buffers alone, and
\* releases the mutex only if it is the one that holds it.
LEMMA LeaveLock ==
    ASSUME LockInv, NEW c \in Calls, NEW pc, pc # "sending",
           callPc' = [callPc EXCEPT ![c] = pc],
           \/ streamLock' = streamLock
           \/ streamLock = c /\ streamLock' = NoOne,
           UNCHANGED <<closePc, message_stream, wbuf>>
    PROVE  CloserHoldsStream' /\ SenderHoldsStream'
<1> USE DEF LockInv, TypeInv, TypeOK
<1>1. CloserHoldsStream'
  BY ClientAssumption DEF CloserHoldsStream
<1>2. SenderHoldsStream'
  BY DEF SenderHoldsStream
<1> QED
  BY <1>1, <1>2

LEMMA CallLock ==
    ASSUME LockInv, NEW c \in Calls, CallStep(c)
    PROVE  CloserHoldsStream' /\ SenderHoldsStream'
<1> USE DEF sharedVars, taskVars, networkVars
<1>1. CASE TakeId(c)
  BY <1>1, LeaveLock DEF TakeId, lockVars
<1>2. CASE Register(c)
  BY <1>2, LeaveLock DEF Register, lockVars
<1>3. CASE Refuse(c) \/ RefuseOversized(c) \/ Receive(c) \/ Timeout(c)
  BY <1>3, LeaveLock
  DEF Refuse, RefuseOversized, Receive, Timeout, Return
<1>4. CASE BeginSend(c)
  BY <1>4, BeginSendLock
<1>5. CASE Flush(c)
  BY <1>5, FlushLock
<1>6. CASE FailSend(c)
  <2> streamLock = c
    BY <1>6 DEF FailSend, LockInv, SenderHoldsStream
  <2> QED
    BY <1>6, LeaveLock DEF FailSend, Return
<1>7. CASE Cancel(c)
  BY <1>7, LeaveLock DEF Cancel
<1> QED
  BY <1>1, <1>2, <1>3, <1>4, <1>5, <1>6, <1>7 DEF CallStep, CallProgress

LEMMA LockUnchanged ==
    CloserHoldsStream /\ SenderHoldsStream /\ UNCHANGED slotState
        => CloserHoldsStream' /\ SenderHoldsStream'
  BY DEF slotState, CloserHoldsStream, SenderHoldsStream

\* The slot changes hands only while nobody holds the mutex.
LEMMA SlotLock ==
    ASSUME LockInv, streamLock = NoOne,
           UNCHANGED <<callPc, closePc, streamLock>>
    PROVE  CloserHoldsStream' /\ SenderHoldsStream'
  BY FreeMutex DEF CloserHoldsStream, SenderHoldsStream

LEMMA TaskLock ==
    ASSUME LockInv,
           \/ \E p \in Connects : ConnectStep(p) \/ HandlerStep(p)
           \/ DropClient \/ Environment \/ Finished
    PROVE  CloserHoldsStream' /\ SenderHoldsStream'
<1> USE DEF LockInv, sharedVars, lockVars, callVars, taskVars, networkVars
<1>1. ASSUME NEW p \in Connects, ConnectStep(p)
      PROVE  CloserHoldsStream' /\ SenderHoldsStream'
  BY <1>1, LockUnchanged, SlotLock
  DEF ConnectStep, ConnectOpen, ConnectFail, ConnectSession, ConnectStream,
      slotState
<1>2. ASSUME NEW h \in Connects, HandlerStep(h)
      PROVE  CloserHoldsStream' /\ SenderHoldsStream'
  BY <1>2, LockUnchanged, SlotLock
  DEF HandlerStep, HandlerTake, HandlerDispatch, HandlerSkip, HandlerEnd,
      HandlerPutBack, slotState
<1>3. CASE DropClient \/ Environment \/ Finished
  BY <1>3, LockUnchanged
  DEF DropClient, Environment, PeerRead, PeerReply, PeerGarbage, PeerEnds,
      ConnectionLost, TakeDown, Finished, vars, slotState
<1> QED
  BY <1>1, <1>2, <1>3

LEMMA CloseLock ==
    ASSUME LockInv, NEW x \in Closes, CloseStep(x)
    PROVE  CloserHoldsStream' /\ SenderHoldsStream'
<1> USE DEF LockInv, TypeInv, TypeOK, callVars
<1>1. CASE CloseSession(x)
  BY <1>1 DEF CloseSession, TakeDown, CloserHoldsStream, SenderHoldsStream
<1>2. CASE CloseStream(x)
  <2>1. \A c \in Calls : callPc'[c] # "sending"
    BY <1>2, FreeMutex DEF CloseStream
  <2>2. \A y \in Closes : closePc'[y] = "stream_closed" => y = x
    BY <1>2, FreeMutex DEF CloseStream
  <2> QED
    BY <1>2, <2>1, <2>2 DEF CloseStream, CloserHoldsStream, SenderHoldsStream
<1>3. CASE ClosePending(x)
  <2>1. streamLock = x
    BY <1>3 DEF ClosePending, CloserHoldsStream
  <2>2. \A c \in Calls : callPc'[c] # "sending"
    BY <1>3, <2>1, ClientAssumption DEF ClosePending, SenderHoldsStream
  <2>3. \A y \in Closes : closePc'[y] # "stream_closed"
    BY <1>3, <2>1 DEF ClosePending, CloserHoldsStream
  <2> QED
    BY <2>2, <2>3 DEF CloserHoldsStream, SenderHoldsStream
<1> QED
  BY <1>1, <1>2, <1>3 DEF CloseStep

LEMMA LockStep == LockInv /\ [Next]_vars => LockInv'
<1>1. ASSUME LockInv, Next PROVE LockInv'
  BY <1>1, TypeStep, CallLock, TaskLock, CloseLock DEF Next, LockInv
<1>2. ASSUME LockInv, UNCHANGED vars PROVE LockInv'
  BY <1>2, TypeStep, LockUnchanged
  DEF LockInv, slotState, vars, sharedVars, lockVars, callVars, taskVars,
      networkVars
<1> QED
  BY <1>1, <1>2

\* The slot and its stream's write buffer are never exchanged under a call
\* that is sending, whatever connects, closes and handlers run.
THEOREM SenderHoldsStreamCorrect == Spec => []SenderHoldsStream
BY LockInit, LockStep, PTL DEF Spec, LockInv

-----------------------------------------------------------------------------
(* A request is given to the transport once.                               *)

Carries(q, c) == \E i \in 1 .. Len(q) : q[i].of = c
Single(q)     == \A i, j \in 1 .. Len(q) : q[i].of = q[j].of => i = j

\* The request of c is in the write buffer of s, or has left it for the
\* transport at some time.
OnStream(s, c) == Carries(wbuf[s], c) \/ Carries(asked[s], c)

OnePlace(s) ==
    /\ Single(wbuf[s]) /\ Single(asked[s])
    /\ \A c \in Calls : ~ (Carries(wbuf[s], c) /\ Carries(asked[s], c))

OneStream ==
    \A s, t \in Connects : \A c \in Calls :
        OnStream(s, c) /\ OnStream(t, c) => s = t

\* A request is somewhere only once its call has begun to send.
Unsent(c) == callPc[c] \in {"idle", "numbered", "registered"}
SentByNow == \A s \in Connects : \A c \in Calls : OnStream(s, c) => ~ Unsent(c)

Delivered ==
    /\ asked \in [Connects -> Seq(Request)]
    /\ \A s \in Connects : OnePlace(s)
    /\ OneStream
    /\ SentByNow

\* That BeginSend puts no second copy beside a first is SentByNow, and that
\* the stream of a Flush is one of Connects is SenderHoldsStream.
DeliveryInv == LockInv /\ Delivered

LEMMA CarriesAppend ==
    ASSUME NEW q \in Seq(Request), NEW r \in Request
    PROVE  /\ \A c : Carries(Append(q, r), c) <=> Carries(q, c) \/ r.of = c
           /\ Single(q) /\ ~ Carries(q, r.of) => Single(Append(q, r))
<1> DEFINE a == Append(q, r)
<1>1. /\ Len(q) \in Nat /\ Len(a) = Len(q) + 1
      /\ \A i \in 1 .. Len(q) : a[i] = q[i]
      /\ a[Len(q) + 1] = r
  BY AppendProperties, LenProperties
<1> HIDE DEF a
<1>2. ASSUME NEW c PROVE Carries(a, c) <=> Carries(q, c) \/ r.of = c
  BY <1>1 DEF Carries
<1>3. ASSUME Single(q), ~ Carries(q, r.of) PROVE Single(a)
  BY <1>1, <1>3 DEF Single, Carries
<1> QED
  BY <1>2, <1>3 DEF a

LEMMA CarriesTail ==
    ASSUME NEW q \in Seq(Request), q # <<>>, Single(q)
    PROVE  /\ \A c : Carries(Tail(q), c) <=> Carries(q, c) /\ c # Head(q).of
           /\ Carries(q, Head(q).of)
           /\ Single(Tail(q))
<1> DEFINE t == Tail(q)
           h == Head(q)
           n == Len(q)
<1>1. /\ n \in Nat \ {0} /\ Len(t) = n - 1 /\ h = q[1]
      /\ \A i \in 1 .. n - 1 : t[i] = q[i + 1]
  <2>1. n \in Nat \ {0}
    BY EmptySeq
  <2>2. Len(t) = n - 1
    BY HeadTailProperties
  <2>3. \A i \in 1 .. n - 1 : t[i] = q[i + 1]
    BY <2>2, HeadTailProperties
  <2> QED
    BY <2>1, <2>2, <2>3
<1> HIDE DEF t, h
<1>2. \A i, j \in 1 .. n : q[i].of = q[j].of => i = j
  BY DEF Single
<1> HIDE DEF n
<1>3. Carries(q, h.of)
  BY <1>1 DEF Carries, n
<1>4. Single(t)
  <2> SUFFICES ASSUME NEW i \in 1 .. n - 1, NEW j \in 1 .. n - 1,
                      q[i + 1].of = q[j + 1].of
               PROVE  i = j
    BY <1>1 DEF Single
  <2>1. i + 1 \in 1 .. n /\ j + 1 \in 1 .. n
    BY <1>1
  <2> QED
    BY <1>1, <1>2, <2>1
<1>5. ASSUME NEW c, Carries(t, c) PROVE Carries(q, c) /\ c # h.of
  <2> PICK i \in 1 .. n - 1 : q[i + 1].of = c
    BY <1>1, <1>5 DEF Carries
  <2>1. i + 1 \in 1 .. n /\ 1 \in 1 .. n /\ i + 1 # 1
    BY <1>1
  <2> QED
    BY <1>1, <1>2, <2>1 DEF Carries, n
<1>6. ASSUME NEW c, Carries(q, c), c # h.of PROVE Carries(t, c)
  <2> PICK i \in 1 .. n : q[i].of = c
    BY <1>6 DEF Carries, n
  <2>1. i - 1 \in 1 .. n - 1 /\ t[i - 1] = q[i]
    BY <1>1, <1>6
  <2> QED
    BY <1>1, <2>1 DEF Carries
<1> QED
  BY <1>3, <1>4, <1>5, <1>6 DEF t, h

LEMMA NothingCarried == Single(<<>>) /\ \A c : ~ Carries(<<>>, c)
  BY DEF Single, Carries

\* A step that gives the transport nothing and the write buffers nothing.
Fewer ==
    /\ \A s \in Connects : wbuf'[s] \in {wbuf[s], <<>>}
    /\ \A c \in Calls : Unsent(c)' => Unsent(c)
    /\ asked' = asked

LEMMA FewerDelivery == ASSUME Delivered, Fewer PROVE Delivered'
<1>1. ASSUME NEW s \in Connects
      PROVE  /\ \A c : Carries(wbuf'[s], c) => Carries(wbuf[s], c)
             /\ Single(wbuf[s]) => Single(wbuf'[s])
             /\ asked'[s] = asked[s]
  BY NothingCarried DEF Fewer
<1>2. ASSUME NEW s \in Connects PROVE OnePlace(s)'
  BY <1>1 DEF Delivered, OnePlace
<1>3. ASSUME NEW s \in Connects, NEW c \in Calls, OnStream(s, c)'
      PROVE  OnStream(s, c)
  BY <1>1, <1>3 DEF OnStream
<1>4. OneStream' /\ SentByNow'
  BY <1>3 DEF Delivered, OneStream, SentByNow, Fewer
<1> QED
  BY <1>2, <1>4 DEF Delivered, Fewer

\* A step that changes stream s only, and there at most brings in the
\* request of a call that had not begun to send.
LEMMA MovedDelivery ==
    ASSUME Delivered, NEW s \in Connects, OnePlace(s)',
           asked' \in [Connects -> Seq(Request)],
           \A t \in Connects \ {s} : wbuf'[t] = wbuf[t] /\ asked'[t] = asked[t],
           \A c \in Calls : OnStream(s, c)' =>
              ~ Unsent(c)' /\ (OnStream(s, c) \/ Unsent(c)),
           \A c \in Calls : Unsent(c)' => Unsent(c)
    PROVE  Delivered'
<1>1. ASSUME NEW t \in Connects \ {s}
      PROVE  /\ OnePlace(t)'
             /\ \A c \in Calls : OnStream(t, c)' <=> OnStream(t, c)
  BY DEF Delivered, OnePlace, OnStream
<1>2. \A t \in Connects : OnePlace(t)'
  BY <1>1
<1>3. SentByNow'
  BY <1>1 DEF Delivered, SentByNow
<1>4. ASSUME NEW t \in Connects, NEW u \in Connects, NEW c \in Calls,
             OnStream(t, c)', OnStream(u, c)'
      PROVE  t = u
  <2>1. \A v \in Connects \ {s} : OnStream(v, c)' => OnStream(v, c)
    BY <1>1, Zenon
  <2>2. OnStream(s, c)' => OnStream(s, c) \/ Unsent(c)
    OBVIOUS
  <2>3. /\ \A v \in Connects : OnStream(v, c) => ~ Unsent(c)
        /\ \A v, w \in Connects : OnStream(v, c) /\ OnStream(w, c) => v = w
    BY Zenon DEF Delivered, OneStream, SentByNow
  <2> QED
    BY <1>4, <2>1, <2>2, <2>3, Zenon
<1> QED
  BY <1>2, <1>3, <1>4, Zenon DEF Delivered, OneStream

\* The history after a step that does not fill toServer, and after a Flush.
LEMMA NothingRecorded ==
    ASSUME Delivered,
           \A s \in Connects : ~ (Len(toServer'[s]) > Len(toServer[s]))
    PROVE  Recorded <=> asked' = asked
<1>1. asked = [s \in Connects |-> asked[s]]
  BY DEF Delivered
<1> QED
  BY <1>1 DEF Recorded

LEMMA FlushRecorded ==
    ASSUME LockInv, Delivered, NEW c \in Calls, Flush(c), Recorded
    PROVE  \E s \in Connects :
              /\ s = message_stream
              /\ asked' = [asked EXCEPT ![s] = Append(asked[s], Head(wbuf[s]))]
<1>1. PICK s \in Connects : s = message_stream
  BY DEF Flush, LockInv, TypeInv, TypeOK, SenderHoldsStream
<1> DEFINE h == Head(wbuf[s])
           q == toServer[s]
<1>2. /\ toServer' = [toServer EXCEPT ![s] = Append(q, h)]
      /\ wbuf[s] \in Seq(Request) /\ wbuf[s] # <<>>
      /\ toServer \in [Connects -> Seq(Request)]
  BY <1>1 DEF Flush, LockInv, TypeInv, TypeOK
<1>3. h \in Request /\ q \in Seq(Request)
  BY <1>2, HeadTailProperties
<1>4. /\ Len(Append(q, h)) = Len(q) + 1 /\ Len(q) \in Nat
      /\ Append(q, h)[Len(q) + 1] = h
  <2> HIDE DEF q, h
  <2> QED
    BY <1>3, AppendProperties, LenProperties
<1>5. toServer'[s] = Append(q, h)
      /\ \A t \in Connects \ {s} : toServer'[t] = toServer[t]
  BY <1>2
<1>6. \A t \in Connects : Len(toServer[t]) \in Nat
  BY <1>2, LenProperties
<1> HIDE DEF q, h
<1>7. /\ Len(toServer'[s]) > Len(toServer[s])
      /\ toServer'[s][Len(toServer'[s])] = h
      /\ \A t \in Connects \ {s} : ~ (Len(toServer'[t]) > Len(toServer[t]))
  BY <1>4, <1>5, <1>6 DEF q
<1>8. asked' = [t \in Connects |-> IF t = s THEN Append(asked[t], h)
                                   ELSE asked[t]]
  BY <1>7 DEF Recorded
<1> QED
  BY <1>1, <1>8 DEF Delivered, h

LEMMA FlushDelivery ==
    ASSUME LockInv, Delivered, NEW c \in Calls, Flush(c), Recorded
    PROVE  Delivered'
<1>0. PICK s \in Connects :
        /\ s = message_stream
        /\ asked' = [asked EXCEPT ![s] = Append(asked[s], Head(wbuf[s]))]
  BY FlushRecorded
<1> DEFINE q == wbuf[s]
           h == Head(q)
<1>1. /\ q \in Seq(Request) /\ q # <<>> /\ Single(q)
      /\ asked[s] \in Seq(Request)
  BY <1>0 DEF Flush, LockInv, TypeInv, TypeOK, Delivered, OnePlace
<1>2. /\ \A d : Carries(Tail(q), d) <=> Carries(q, d) /\ d # h.of
      /\ Carries(q, h.of) /\ Single(Tail(q))
      /\ h \in Request /\ h.of \in Calls
  <2> HIDE DEF q
  <2>1. h \in Request
    BY <1>1, HeadTailProperties
  <2> QED
    BY <1>1, <2>1, CarriesTail DEF Request
<1>3. /\ wbuf'[s] = Tail(q) /\ asked'[s] = Append(asked[s], h)
      /\ \A t \in Connects \ {s} : wbuf'[t] = wbuf[t] /\ asked'[t] = asked[t]
      /\ \A d \in Calls : Unsent(d)' <=> Unsent(d)
  BY <1>0 DEF Flush, LockInv, TypeInv, TypeOK, Unsent, Delivered
<1>4. asked' \in [Connects -> Seq(Request)]
  <2> HIDE DEF h
  <2>1. Append(asked[s], h) \in Seq(Request)
    BY <1>1, <1>2, AppendProperties
  <2> QED
    BY <1>0, <2>1 DEF Delivered, h
<1> HIDE DEF h, q
<1>5. ~ Carries(asked[s], h.of)
  BY <1>0, <1>2 DEF Delivered, OnePlace, q
<1>6. /\ \A d : Carries(asked'[s], d) <=> Carries(asked[s], d) \/ d = h.of
      /\ Single(asked'[s])
  BY <1>0, <1>1, <1>2, <1>3, <1>5, CarriesAppend DEF Delivered, OnePlace
<1>7. OnePlace(s)'
  <2>1. Single(wbuf'[s]) /\ Single(asked'[s])
    BY <1>2, <1>3, <1>6
  <2>2. ASSUME NEW d \in Calls
        PROVE  ~ (Carries(wbuf'[s], d) /\ Carries(asked'[s], d))
    BY <1>2, <1>3, <1>6 DEF Delivered, OnePlace, q
  <2> QED
    BY <2>1, <2>2 DEF OnePlace
<1>8. \A d \in Calls : OnStream(s, d)' => OnStream(s, d)
  BY <1>2, <1>3, <1>6 DEF OnStream, q
<1> QED
  BY <1>0, <1>3, <1>4, <1>7, <1>8, MovedDelivery DEF Delivered, SentByNow

LEMMA BeginSendDelivery ==
    ASSUME LockInv, Delivered, NEW c \in Calls, BeginSend(c), asked' = asked
    PROVE  Delivered'
<1> DEFINE r == [id |-> reqId[c], of |-> c]
<1>1. PICK s \in Connects : s = message_stream
  BY DEF BeginSend, LockInv, TypeInv, TypeOK
<1>2. r \in Request /\ r.of = c /\ wbuf[s] \in Seq(Request)
  BY DEF LockInv, TypeInv, TypeOK, Request
<1>3. /\ wbuf'[s] = Append(wbuf[s], r)
      /\ \A t \in Connects \ {s} : wbuf'[t] = wbuf[t]
      /\ \A d \in Calls : Unsent(d)' <=> Unsent(d) /\ d # c
      /\ Unsent(c)
  BY <1>2, <1>1 DEF BeginSend, LockInv, TypeInv, TypeOK, Unsent
<1> HIDE DEF r
<1>4. ~ OnStream(s, c)
  BY <1>2, <1>3 DEF Delivered, SentByNow
<1>5. /\ \A d : Carries(wbuf'[s], d) <=> Carries(wbuf[s], d) \/ d = c
      /\ Single(wbuf'[s])
  BY <1>2, <1>3, <1>4, CarriesAppend DEF Delivered, OnePlace, OnStream
<1>6. OnePlace(s)'
  BY <1>2, <1>3, <1>4, <1>5 DEF Delivered, OnePlace, OnStream
<1>7. \A d \in Calls : OnStream(s, d)' <=> OnStream(s, d) \/ d = c
  BY <1>3, <1>5 DEF OnStream
<1>8. \A d \in Calls : OnStream(s, d)' =>
          ~ Unsent(d)' /\ (OnStream(s, d) \/ Unsent(d))
  BY <1>2, <1>3, <1>7 DEF Delivered, SentByNow
<1> QED
  BY <1>2, <1>3, <1>6, <1>8, MovedDelivery DEF Delivered

\* A step that gives the transport no request.
Quiet ==
    \A s \in Connects :
        \/ toServer'[s] = toServer[s]
        \/ toServer'[s] = <<>>
        \/ toServer[s] # <<>> /\ toServer'[s] = Tail(toServer[s])

LEMMA QuietIsNotRecorded ==
    ASSUME TypeInv, Delivered, Quiet PROVE Recorded <=> asked' = asked
<1>1. ASSUME NEW s \in Connects
      PROVE  ~ (Len(toServer'[s]) > Len(toServer[s]))
  <2>1. toServer[s] \in Seq(Request) /\ Len(toServer[s]) \in Nat
    BY LenProperties DEF TypeInv, TypeOK
  <2>2. CASE toServer[s] # <<>> /\ toServer'[s] = Tail(toServer[s])
    BY <2>1, <2>2, HeadTailProperties
  <2>3. CASE toServer'[s] = toServer[s] \/ toServer'[s] = <<>>
    BY <2>1, <2>3
  <2> QED
    BY <2>2, <2>3 DEF Quiet
<1> QED
  BY <1>1, NothingRecorded

LEMMA KeptOrLostIsQuiet ==
    ASSUME \A s \in Connects : toServer'[s] \in {toServer[s], <<>>}
    PROVE  Quiet
<1> SUFFICES ASSUME NEW s \in Connects
             PROVE  toServer'[s] = toServer[s] \/ toServer'[s] = <<>>
  BY DEF Quiet
<1> QED
  OBVIOUS

LEMMA ReleaseFewer ==
    ASSUME TypeInv, NEW s \in Connects \cup {NoOne}, Release(s)
    PROVE  \A t \in Connects :
              wbuf'[t] \in {wbuf[t], <<>>} /\ toServer'[t] = toServer[t]
  BY DEF Release, TypeInv, TypeOK, networkVars

LEMMA TakeDownFewer ==
    ASSUME NEW S, TakeDown(S)
    PROVE  \A t \in Connects : /\ wbuf'[t] = wbuf[t]
                               /\ toServer'[t] \in {toServer[t], <<>>}
  BY DEF TakeDown

\* Every step but Flush is quiet; every step but Flush and BeginSend leaves
\* or drops what is in the write buffers.
LEMMA EnvironmentQuiet ==
    ASSUME TypeInv, Environment
    PROVE  Quiet /\ UNCHANGED <<wbuf, callPc>>
<1> PICK s \in Connects :
        \/ PeerRead(s) \/ PeerReply(s) \/ PeerGarbage(s)
        \/ PeerEnds(s) \/ ConnectionLost(s)
  BY DEF Environment
<1>1. CASE PeerRead(s)
  <2>1. /\ \A t \in Connects : toServer'[t] = IF t = s THEN Tail(toServer[s])
                                             ELSE toServer[t]
        /\ toServer[s] # <<>>
    BY <1>1 DEF PeerRead, TypeInv, TypeOK
  <2> QED
    BY <1>1, <2>1, Zenon DEF PeerRead, Quiet, callVars
<1>2. CASE PeerReply(s) \/ PeerGarbage(s) \/ PeerEnds(s)
  <2> \A t \in Connects : toServer'[t] \in {toServer[t], <<>>}
    BY <1>2 DEF PeerReply, PeerGarbage, PeerEnds, TypeInv, TypeOK
  <2> QED
    BY <1>2, KeptOrLostIsQuiet DEF PeerReply, PeerGarbage, PeerEnds, callVars
<1>3. CASE ConnectionLost(s)
  BY <1>3, TakeDownFewer, KeptOrLostIsQuiet
  DEF ConnectionLost, TakeDown, callVars
<1> QED
  BY <1>1, <1>2, <1>3

LEMMA CallQuiet ==
    ASSUME TypeInv, NEW c \in Calls, CallStep(c), ~ Flush(c)
    PROVE  /\ Quiet /\ \A d \in Calls : Unsent(d)' => Unsent(d)
           /\ BeginSend(c) \/ UNCHANGED wbuf
<1>1. toServer' = toServer /\ (BeginSend(c) \/ UNCHANGED wbuf)
  BY DEF CallStep, CallProgress, TakeId, Register, Refuse, RefuseOversized,
         BeginSend, FailSend, Receive, Timeout, Cancel, Return, networkVars
<1>2. \A d \in Calls : Unsent(d)' => Unsent(d)
  BY DEF CallStep, CallProgress, TakeId, Register, Refuse, RefuseOversized,
         BeginSend, FailSend, Receive, Timeout, Cancel, Return, Unsent,
         TypeInv, TypeOK
<1> QED
  BY <1>1, <1>2, KeptOrLostIsQuiet

LEMMA TaskQuiet ==
    ASSUME TypeInv,
           \/ \E p \in Connects : ConnectStep(p) \/ HandlerStep(p)
           \/ \E x \in Closes : CloseStep(x)
           \/ DropClient \/ Finished \/ UNCHANGED vars
    PROVE  /\ Quiet /\ callPc' = callPc
           /\ \A s \in Connects : wbuf'[s] \in {wbuf[s], <<>>}
<1>1. callPc' = callPc
  BY DEF ConnectStep, ConnectOpen, ConnectFail, ConnectSession, ConnectStream,
         HandlerStep, HandlerTake, HandlerDispatch, HandlerSkip, HandlerEnd,
         HandlerPutBack, CloseStep, CloseSession, CloseStream, ClosePending,
         DropClient, Finished, vars, callVars
<1>2. \/ UNCHANGED <<wbuf, toServer>>
      \/ Release(message_stream)
      \/ \E S : TakeDown(S)
  BY DEF ConnectStep, ConnectOpen, ConnectFail, ConnectSession, ConnectStream,
         HandlerStep, HandlerTake, HandlerDispatch, HandlerSkip, HandlerEnd,
         HandlerPutBack, CloseStep, CloseSession, CloseStream, ClosePending,
         DropClient, Finished, vars, networkVars
<1>3. message_stream \in Connects \cup {NoOne}
  BY DEF TypeInv, TypeOK
<1>4. \A s \in Connects : /\ wbuf'[s] \in {wbuf[s], <<>>}
                         /\ toServer'[s] \in {toServer[s], <<>>}
  BY <1>2, <1>3, ReleaseFewer, TakeDownFewer
<1> QED
  BY <1>1, <1>4, KeptOrLostIsQuiet

LEMMA DeliveryInvInit == DeliveryInit => DeliveryInv
<1> SUFFICES ASSUME DeliveryInit PROVE DeliveryInv
  OBVIOUS
<1>1. \A s \in Connects : wbuf[s] = <<>> /\ asked[s] = <<>>
  BY DEF DeliveryInit, Init
<1>2. \A s \in Connects : \A c \in Calls : ~ OnStream(s, c)
  BY <1>1, NothingCarried DEF OnStream
<1>3. \A s \in Connects : OnePlace(s)
  BY <1>1, NothingCarried DEF OnePlace
<1>4. asked \in [Connects -> Seq(Request)]
  <2> <<>> \in Seq(Request)
    OBVIOUS
  <2> QED
    BY DEF DeliveryInit
<1> QED
  BY <1>2, <1>3, <1>4, LockInit
  DEF DeliveryInit, DeliveryInv, Delivered, OneStream, SentByNow

LEMMA DeliveryStep ==
    DeliveryInv /\ [DeliveryNext]_deliveryVars => DeliveryInv'
<1> SUFFICES ASSUME DeliveryInv, [DeliveryNext]_deliveryVars
             PROVE  DeliveryInv'
  OBVIOUS
<1>1. LockInv /\ TypeInv /\ Delivered
  BY DEF DeliveryInv, LockInv
<1>2. LockInv'
  BY <1>1, LockStep DEF DeliveryNext, deliveryVars
<1>3. ASSUME DeliveryNext, NEW c \in Calls, CallStep(c) PROVE Delivered'
  <2>1. CASE Flush(c)
    BY <1>1, <1>3, <2>1, FlushDelivery DEF DeliveryNext
  <2>2. CASE ~ Flush(c)
    <3>1. /\ asked' = asked /\ \A d \in Calls : Unsent(d)' => Unsent(d)
          /\ BeginSend(c) \/ UNCHANGED wbuf
      BY <1>1, <1>3, <2>2, CallQuiet, QuietIsNotRecorded DEF DeliveryNext
    <3> QED
      BY <1>1, <3>1, BeginSendDelivery, FewerDelivery DEF Fewer
  <2> QED
    BY <2>1, <2>2
<1>4. ASSUME DeliveryNext, Environment PROVE Delivered'
  <2> asked' = asked /\ UNCHANGED <<wbuf, callPc>>
    BY <1>1, <1>4, EnvironmentQuiet, QuietIsNotRecorded DEF DeliveryNext
  <2> QED
    BY <1>1, FewerDelivery DEF Fewer, Unsent
<1>5. ASSUME \/ DeliveryNext
                /\ \/ \E p \in Connects : ConnectStep(p) \/ HandlerStep(p)
                   \/ \E x \in Closes : CloseStep(x)
                   \/ DropClient \/ Finished
             \/ UNCHANGED deliveryVars
      PROVE  Delivered'
  <2>1. /\ Quiet /\ callPc' = callPc
        /\ \A s \in Connects : wbuf'[s] \in {wbuf[s], <<>>}
    BY <1>1, <1>5, TaskQuiet DEF deliveryVars
  <2>2. asked' = asked
    BY <1>1, <1>5, <2>1, QuietIsNotRecorded DEF DeliveryNext, deliveryVars
  <2> QED
    BY <1>1, <2>1, <2>2, FewerDelivery DEF Fewer, Unsent
<1> QED
  BY <1>2, <1>3, <1>4, <1>5 DEF DeliveryInv, DeliveryNext, Next

\* The transport is given the request of a call at most once in the life of
\* the client, whatever sends fail or are cancelled, whatever is answered,
\* times out or is lost in between, and however often the client connects.
THEOREM AtMostOnceDeliveryCorrect == DeliverySpec => []AtMostOnceDelivery
<1>1. DeliveryInv => AtMostOnceDelivery
  <2> SUFFICES ASSUME DeliveryInv,
                      NEW s \in Connects, NEW t \in Connects,
                      NEW i \in 1 .. Len(asked[s]),
                      NEW j \in 1 .. Len(asked[t]),
                      asked[s][i].of = asked[t][j].of
               PROVE  s = t /\ i = j
    BY DEF AtMostOnceDelivery
  <2>1. PICK q \in Seq(Request) : q = asked[s]
    BY DEF DeliveryInv, Delivered
  <2>2. asked[s][i].of \in Calls
    <3> q[i] \in Request
      BY <2>1, ElementOfSeq
    <3> QED
      BY <2>1 DEF Request
  <2>3. s = t
    BY <2>2 DEF DeliveryInv, Delivered, OneStream, OnStream, Carries
  <2> QED
    BY <2>3 DEF DeliveryInv, Delivered, OnePlace, Single
<1> QED
  BY DeliveryInvInit, DeliveryStep, <1>1, PTL DEF DeliverySpec

-----------------------------------------------------------------------------
(* A stream is never in two hands.                                         *)

Held(s) == \E h \in Connects : handlerStream[h] = s

\* A stream is in the slot or with one handler, from when its connect has
\* stored it until the client drops it.
OneOwner ==
    \A s \in Connects :
        /\ \A g, h \in Connects :
              handlerStream[g] = s /\ handlerStream[h] = s => g = h
        /\ ~ (message_stream = s /\ Held(s))
        /\ message_stream = s \/ Held(s) \/ stream[s] = "finished" =>
              connectPc[s] = "connected"
        /\ stream[s] = "finished" => message_stream # s /\ ~ Held(s)

LEMMA ReleasedStream ==
    ASSUME TypeInv, NEW r \in Connects \cup {NoOne}, Release(r),
           NEW s \in Connects, s # r
    PROVE  stream'[s] = stream[s]
  BY DEF Release, networkVars, TypeInv, TypeOK

\* A step that moves no stream between the slot and the handlers, and in
\* which the client drops none.
LEMMA StillOwned ==
    ASSUME OneOwner, UNCHANGED <<message_stream, handlerStream>>,
           \A s \in Connects :
              /\ connectPc[s] = "connected" => connectPc'[s] = "connected"
              /\ stream'[s] = "finished" => stream[s] = "finished"
    PROVE  OneOwner'
  BY DEF OneOwner, Held

LEMMA ConnectOwner ==
    ASSUME TypeInv, OneOwner, NEW p \in Connects, ConnectStep(p)
    PROVE  OneOwner'
<1>1. CASE ConnectOpen(p)
  <2> /\ UNCHANGED <<message_stream, handlerStream>>
      /\ connectPc[p] = "idle" /\ stream'[p] = "open"
      /\ \A s \in Connects \ {p} :
            connectPc'[s] = connectPc[s] /\ stream'[s] = stream[s]
    BY <1>1 DEF ConnectOpen, sharedVars, TypeInv, TypeOK
  <2> QED
    BY StillOwned
<1>2. CASE ConnectFail(p) \/ ConnectSession(p)
  <2> /\ UNCHANGED <<message_stream, handlerStream, stream>>
      /\ connectPc[p] # "connected"
      /\ \A s \in Connects \ {p} : connectPc'[s] = connectPc[s]
    BY <1>2
    DEF ConnectFail, ConnectSession, sharedVars, networkVars, TypeInv, TypeOK
  <2> QED
    BY StillOwned
<1>3. CASE ConnectStream(p)
  <2>1. /\ message_stream' = p /\ connectPc[p] = "session_set"
        /\ connectPc'[p] = "connected" /\ UNCHANGED handlerStream
        /\ \A s \in Connects \ {p} : connectPc'[s] = connectPc[s]
    BY <1>3 DEF ConnectStream, TypeInv, TypeOK
  <2>2. message_stream # p /\ ~ Held(p) /\ stream[p] # "finished"
    BY <2>1 DEF OneOwner
  <2>3. \A s \in Connects : s # message_stream => stream'[s] = stream[s]
    BY <1>3, ReleasedStream DEF ConnectStream, TypeInv, TypeOK
  <2> QED
    BY <2>1, <2>2, <2>3 DEF OneOwner, Held
<1> QED
  BY <1>1, <1>2, <1>3 DEF ConnectStep

LEMMA HandlerOwner ==
    ASSUME TypeInv, OneOwner, NEW h \in Connects, HandlerStep(h)
    PROVE  OneOwner'
<1>1. CASE HandlerTake(h)
  <2>1. /\ message_stream' = NoOne /\ handlerStream'[h] = message_stream
        /\ \A g \in Connects \ {h} : handlerStream'[g] = handlerStream[g]
        /\ UNCHANGED <<stream, connectPc>>
    BY <1>1 DEF HandlerTake, networkVars, TypeInv, TypeOK
  <2>2. NoOne \notin Connects
    BY ClientAssumption
  <2> QED
    BY <2>1, <2>2 DEF OneOwner, Held
<1>2. CASE HandlerPutBack(h)
  <2>1. /\ message_stream' = handlerStream[h] /\ handlerStream'[h] = NoOne
        /\ \A g \in Connects \ {h} : handlerStream'[g] = handlerStream[g]
        /\ UNCHANGED connectPc
    BY <1>2 DEF HandlerPutBack, TypeInv, TypeOK
  <2>2. \A s \in Connects : s # message_stream => stream'[s] = stream[s]
    BY <1>2, ReleasedStream DEF HandlerPutBack, TypeInv, TypeOK
  <2>3. NoOne \notin Connects
    BY ClientAssumption
  <2> QED
    BY <2>1, <2>2, <2>3 DEF OneOwner, Held
<1>3. CASE HandlerDispatch(h) \/ HandlerSkip(h) \/ HandlerEnd(h)
  <2> UNCHANGED <<message_stream, handlerStream, stream, connectPc>>
    BY <1>3 DEF HandlerDispatch, HandlerSkip, HandlerEnd, sharedVars, taskVars,
                networkVars
  <2> QED
    BY StillOwned
<1> QED
  BY <1>1, <1>2, <1>3 DEF HandlerStep

LEMMA CloseOwner ==
    ASSUME TypeInv, OneOwner, NEW x \in Closes, CloseStep(x) PROVE OneOwner'
<1>1. CASE CloseStream(x)
  <2>1. message_stream' = NoOne /\ UNCHANGED <<handlerStream, connectPc>>
    BY <1>1 DEF CloseStream
  <2>2. \A s \in Connects : s # message_stream => stream'[s] = stream[s]
    BY <1>1, ReleasedStream DEF CloseStream, TypeInv, TypeOK
  <2>3. NoOne \notin Connects
    BY ClientAssumption
  <2> QED
    BY <2>1, <2>2, <2>3 DEF OneOwner, Held
<1>2. CASE CloseSession(x) \/ ClosePending(x)
  <2> /\ UNCHANGED <<message_stream, handlerStream, connectPc>>
      /\ \A s \in Connects : stream'[s] = "finished" => stream[s] = "finished"
    BY <1>2 DEF CloseSession, ClosePending, TakeDown, networkVars
  <2> QED
    BY StillOwned
<1> QED
  BY <1>1, <1>2 DEF CloseStep

LEMMA OwnerStep == TypeInv /\ OneOwner /\ [Next]_vars => OneOwner'
<1> SUFFICES ASSUME TypeInv, OneOwner, [Next]_vars PROVE OneOwner'
  OBVIOUS
<1>1. ASSUME \/ \E c \in Calls : CallStep(c)
             \/ DropClient \/ Environment \/ UNCHANGED vars
      PROVE  OneOwner'
  <2>1. UNCHANGED <<message_stream, handlerStream, connectPc>>
    BY <1>1
    DEF CallStep, CallProgress, TakeId, Register, Refuse, RefuseOversized,
        BeginSend, Flush, FailSend, Receive, Timeout, Cancel, Return,
        DropClient, Environment, PeerRead, PeerReply, PeerGarbage, PeerEnds,
        ConnectionLost, vars, sharedVars, taskVars
  <2>2. \/ UNCHANGED stream
        \/ \E Lost : TakeDown(Lost)
        \/ \E s \in Connects : PeerEnds(s)
    BY <1>1
    DEF CallStep, CallProgress, TakeId, Register, Refuse, RefuseOversized,
        BeginSend, Flush, FailSend, Receive, Timeout, Cancel, Return,
        DropClient, Environment, PeerRead, PeerReply, PeerGarbage,
        ConnectionLost, vars, networkVars
  <2>3. \A s \in Connects : stream'[s] = "finished" => stream[s] = "finished"
    BY <2>2 DEF TakeDown, PeerEnds, TypeInv, TypeOK
  <2> QED
    BY <2>1, <2>3, StillOwned
<1> QED
  BY <1>1, ConnectOwner, HandlerOwner, CloseOwner DEF Next, Finished

\* The stream is moved between the slot and the handlers, never shared: no
\* two handlers read one stream, nor does a call send on one that a handler
\* reads or that the client has dropped, however connects and closes mix.
THEOREM OneOwnerCorrect == Spec => []OneOwner
<1>1. Init => OneOwner
  BY ClientAssumption DEF Init, OneOwner, Held
<1>2. Init => TypeInv
  BY TypeInit
<1> QED
  BY <1>1, <1>2, TypeStep, OwnerStep, PTL DEF Spec

=============================================================================
