------------------------------- MODULE Client -------------------------------
(***************************************************************************)
(* The RPC client of src/src/client.rs: Client::call, Client::connect,     *)
(* Client::close, the response-handler task that connect spawns, and Drop. *)
(*                                                                         *)
(* Many tasks share four tokio mutexes: the session, the message stream,   *)
(* the map of pending requests and the id counter.  A mutex held across an *)
(* await has an owner variable (streamLock, sessionLock); the id counter   *)
(* and the pending map are only ever held over straight-line code, so each *)
(* of their critical sections is one step.                                 *)
(*                                                                         *)
(* Every invocation of connect is an element of Connects; it also names    *)
(* the stream that invocation opens and the handler task it spawns.  The   *)
(* QUIC stream, with its flow-control window, and the peer behind it are   *)
(* the environment of the client (section "The transport and the peer").   *)
(***************************************************************************)
EXTENDS Naturals, Sequences, FiniteSets

CONSTANTS
    Calls,      \* invocations of Client::call
    Connects,   \* invocations of Client::connect, their streams and handlers
    Closes,     \* invocations of Client::close
    IdSpace,    \* number of request ids: 2^64 in the code
    Window,     \* messages that flow control admits in one direction
    NoOne       \* None: no stream, no session, no sender, no lock owner

ASSUME ClientAssumption ==
    /\ IsFiniteSet(Calls)
    /\ IdSpace \in Nat \ {0} /\ Cardinality(Calls) <= IdSpace
    /\ Window \in Nat \ {0}
    /\ NoOne \notin Calls \cup Connects \cup Closes
    /\ Calls \cap Closes = {}

VARIABLES
    alive,          \* the Client value has not been dropped
    next_id,        \* Client.next_id
    pending,        \* Client.pending: id -> the call whose sender it holds
    session,        \* Client.session
    sessionLock,    \* the close that holds the session mutex
    message_stream, \* Client.message_stream
    streamLock,     \* the call or close that holds the stream mutex
    callPc, reqId,  \* where each call is, and the id it took
    rx,             \* the oneshot channel of each call
    result,         \* what each call returned
    connectPc, closePc,
    handlerPc, handlerStream,   \* the response-handler task of each connect
    stream,         \* the transport's view of each stream
    wbuf,           \* the codec's write buffer of each stream
    toServer, atPeer, toClient  \* requests in flight, at the peer, responses

sharedVars  == <<alive, next_id, pending, session, message_stream>>
lockVars    == <<sessionLock, streamLock>>
callVars    == <<callPc, reqId, rx, result>>
taskVars    == <<connectPc, closePc, handlerPc, handlerStream>>
networkVars == <<stream, wbuf, toServer, atPeer, toClient>>
vars == <<sharedVars, lockVars, callVars, taskVars, networkVars>>

-----------------------------------------------------------------------------
(* Data.  The field "of" of a message is a history field: the call that    *)
(* the request belongs to.  No step of the client reads it.                *)

Ids == 0 .. IdSpace - 1

Request  == [id : Ids, of : Calls]
Response == [tag : {"ok", "rpc_failed"}, id : Ids, of : Calls]

\* A frame that crate::deserialize rejects.
Garbage == [tag |-> "garbage"]

\* What a oneshot channel holds and what a call returns.
Outcome(tag, c) == [tag |-> tag, of |-> c]
Empty            == Outcome("none", NoOne)
ConnectionClosed == Outcome("connection_closed", NoOne)
TimedOut         == Outcome("timeout", NoOne)
WebTransport     == Outcome("web_transport", NoOne)
Answers  == [tag : {"ok", "rpc_failed"}, of : Calls]
Channel  == Answers \cup {Empty, ConnectionClosed}
Outcomes == Channel \cup {TimedOut, WebTransport}

\* The calls whose receiver half of the oneshot channel still exists.
Listening(c) == callPc[c] \in {"registered", "sending", "waiting"}

Init ==
    /\ alive = TRUE
    /\ next_id = 0
    /\ pending = [i \in Ids |-> NoOne]
    /\ session = NoOne
    /\ sessionLock = NoOne
    /\ message_stream = NoOne
    /\ streamLock = NoOne
    /\ callPc = [c \in Calls |-> "idle"]
    /\ reqId = [c \in Calls |-> 0]
    /\ rx = [c \in Calls |-> Empty]
    /\ result = [c \in Calls |-> Empty]
    /\ connectPc = [p \in Connects |-> "idle"]
    /\ closePc = [x \in Closes |-> "idle"]
    /\ handlerPc = [h \in Connects |-> "none"]
    /\ handlerStream = [h \in Connects |-> NoOne]
    /\ stream = [s \in Connects |-> "none"]
    /\ wbuf = [s \in Connects |-> <<>>]
    /\ toServer = [s \in Connects |-> <<>>]
    /\ atPeer = [s \in Connects |-> {}]
    /\ toClient = [s \in Connects |-> <<>>]

-----------------------------------------------------------------------------
(* The transport and the peer.                                             *)
(*                                                                         *)
(* A stream is "open"; "ended" when the peer finished it, so that what it  *)
(* already sent can still be read but nothing can be written; "finished"   *)
(* when the client dropped its MessageStream, so that what was written     *)
(* still reaches the peer; "down" when the session or connection is gone.  *)

\* The MessageStream of s (NoOne: there is none) is dropped by the client.
Release(s) ==
    IF s = NoOne
    THEN UNCHANGED networkVars
    ELSE /\ stream' = [stream EXCEPT
                ![s] = IF @ = "open" THEN "finished" ELSE "down"]
         /\ wbuf' = [wbuf EXCEPT ![s] = <<>>]
         /\ toClient' = [toClient EXCEPT ![s] = <<>>]
         /\ UNCHANGED <<toServer, atPeer>>

\* The streams in S go down: nothing in flight on them arrives any more.
\* What the client's codec has read by then, some first part of what the
\* peer had sent, it still decodes.
TakeDown(S) ==
    /\ stream' = [s \in Connects |-> IF s \in S THEN "down" ELSE stream[s]]
    /\ toServer' = [s \in Connects |-> IF s \in S THEN <<>> ELSE toServer[s]]
    /\ atPeer' = [s \in Connects |-> IF s \in S THEN {} ELSE atPeer[s]]
    /\ \E buffered \in [Connects -> 0 .. Window] :
        /\ \A s \in Connects : buffered[s] <= Len(toClient[s])
        /\ toClient' = [s \in Connects |->
                IF s \in S THEN SubSeq(toClient[s], 1, buffered[s])
                ELSE toClient[s]]
    /\ UNCHANGED wbuf

PeerRead(s) ==
    /\ toServer[s] # <<>>
    /\ atPeer' = [atPeer EXCEPT ![s] = @ \cup {Head(toServer[s])}]
    /\ toServer' = [toServer EXCEPT ![s] = Tail(@)]
    /\ UNCHANGED <<sharedVars, lockVars, callVars, taskVars,
                   stream, wbuf, toClient>>

\* The peer answers a request it has read, once, in any order.
PeerReply(s) ==
    /\ stream[s] = "open"
    /\ Len(toClient[s]) < Window
    /\ \E m \in atPeer[s], tag \in {"ok", "rpc_failed"} :
        /\ atPeer' = [atPeer EXCEPT ![s] = @ \ {m}]
        /\ toClient' = [toClient EXCEPT
                ![s] = Append(@, [tag |-> tag, id |-> m.id, of |-> m.of])]
    /\ UNCHANGED <<sharedVars, lockVars, callVars, taskVars,
                   stream, wbuf, toServer>>

\* The peer answers in a way the client cannot deserialize.
PeerGarbage(s) ==
    /\ stream[s] = "open"
    /\ Len(toClient[s]) < Window
    /\ \E m \in atPeer[s] :
        /\ atPeer' = [atPeer EXCEPT ![s] = @ \ {m}]
        /\ toClient' = [toClient EXCEPT ![s] = Append(@, Garbage)]
    /\ UNCHANGED <<sharedVars, lockVars, callVars, taskVars,
                   stream, wbuf, toServer>>

\* The peer's session task ends and drops its end of the stream.
PeerEnds(s) ==
    /\ stream[s] = "open"
    /\ stream' = [stream EXCEPT ![s] = "ended"]
    /\ toServer' = [toServer EXCEPT ![s] = <<>>]
    /\ atPeer' = [atPeer EXCEPT ![s] = {}]
    /\ UNCHANGED <<sharedVars, lockVars, callVars, taskVars, wbuf, toClient>>

\* The connection is lost: the idle timeout, a network failure, a crash.
ConnectionLost(s) ==
    /\ stream[s] \in {"open", "ended", "finished"}
    /\ TakeDown({s})
    /\ UNCHANGED <<sharedVars, lockVars, callVars, taskVars>>

Environment ==
    \E s \in Connects :
        \/ PeerRead(s)
        \/ PeerReply(s)
        \/ PeerGarbage(s)
        \/ PeerEnds(s)
        \/ ConnectionLost(s)

-----------------------------------------------------------------------------
(* Client::call.                                                           *)

\* Mutants of WrappingSucc: the increment lost, and without the wrap.
LostSucc(id)  == id
PlainSucc(id) == id + 1

\* u64::wrapping_add(1)
WrappingSucc(id) == IF id = IdSpace - 1 THEN 0 ELSE id + 1

TakeId(c) ==
    /\ alive
    /\ callPc[c] = "idle"
    /\ reqId' = [reqId EXCEPT ![c] = next_id]
    /\ next_id' = WrappingSucc(next_id)
    /\ callPc' = [callPc EXCEPT ![c] = "numbered"]
    /\ UNCHANGED <<alive, pending, session, message_stream, lockVars,
                   rx, result, taskVars, networkVars>>

\* Mutant of Register: the id read again after the counter's unlock.
RegisterAtCounter(c) ==
    /\ callPc[c] = "numbered"
    /\ pending' = [pending EXCEPT ![next_id] = c]
    /\ callPc' = [callPc EXCEPT ![c] = "registered"]
    /\ UNCHANGED <<alive, next_id, session, message_stream, lockVars,
                   reqId, rx, result, taskVars, networkVars>>

\* HashMap::insert drops the sender it displaces, which closes the channel
\* of that sender's call.
Register(c) ==
    /\ callPc[c] = "numbered"
    /\ pending' = [pending EXCEPT ![reqId[c]] = c]
    /\ rx' = [d \in Calls |-> IF pending[reqId[c]] = d /\ Listening(d)
                              THEN ConnectionClosed ELSE rx[d]]
    /\ callPc' = [callPc EXCEPT ![c] = "registered"]
    /\ UNCHANGED <<alive, next_id, session, message_stream, lockVars,
                   reqId, result, taskVars, networkVars>>

\* The call returns o.  Its entry in the pending map stays where it is.
Return(c, o) ==
    /\ callPc' = [callPc EXCEPT ![c] = "returned"]
    /\ result' = [result EXCEPT ![c] = o]
    /\ rx' = [rx EXCEPT ![c] = Empty]
    /\ UNCHANGED <<sharedVars, sessionLock, reqId, taskVars, networkVars>>

\* stream_guard.as_mut() is None.
Refuse(c) ==
    /\ callPc[c] = "registered"
    /\ streamLock = NoOne
    /\ message_stream = NoOne
    /\ Return(c, ConnectionClosed)
    /\ UNCHANGED streamLock

\* The payload of the call decides: the codec rejects a frame longer than
\* 16 MB before a byte of it is written.
RefuseOversized(c) ==
    /\ callPc[c] = "registered"
    /\ streamLock = NoOne
    /\ message_stream # NoOne
    /\ Return(c, WebTransport)
    /\ UNCHANGED streamLock

\* The frame enters the codec's write buffer, and the call keeps the stream
\* mutex until the buffer is flushed.
BeginSend(c) ==
    /\ callPc[c] = "registered"
    /\ streamLock = NoOne
    /\ message_stream # NoOne
    /\ streamLock' = c
    /\ wbuf' = [wbuf EXCEPT
            ![message_stream] = Append(@, [id |-> reqId[c], of |-> c])]
    /\ callPc' = [callPc EXCEPT ![c] = "sending"]
    /\ UNCHANGED <<sharedVars, sessionLock, reqId, rx, result, taskVars,
                   stream, toServer, atPeer, toClient>>

\* Flow control admits the oldest frame of the write buffer; the send is
\* complete when that empties the buffer.
Flush(c) ==
    LET s == message_stream
        last == Len(wbuf[s]) = 1
    IN  /\ callPc[c] = "sending"
        /\ stream[s] = "open"
        /\ wbuf[s] # <<>>
        /\ Len(toServer[s]) < Window
        /\ toServer' = [toServer EXCEPT ![s] = Append(@, Head(wbuf[s]))]
        /\ wbuf' = [wbuf EXCEPT ![s] = Tail(@)]
        /\ callPc' = [callPc EXCEPT ![c] = IF last THEN "waiting" ELSE @]
        /\ streamLock' = IF last THEN NoOne ELSE streamLock
        /\ UNCHANGED <<sharedVars, sessionLock, reqId, rx, result, taskVars,
                       stream, atPeer, toClient>>

\* Writing to a stream that is not open is an error.
FailSend(c) ==
    /\ callPc[c] = "sending"
    /\ stream[message_stream] # "open"
    /\ Return(c, WebTransport)
    /\ streamLock' = NoOne

Receive(c) ==
    /\ callPc[c] = "waiting"
    /\ rx[c] # Empty
    /\ Return(c, rx[c])
    /\ UNCHANGED streamLock

\* Mutants of Timeout: the answer is awaited without tokio::time::timeout,
\* and a call that has timed out is sent again.
NoTimeout(c) == FALSE

TimeoutResends(c) ==
    /\ callPc[c] = "waiting"
    /\ rx[c] = Empty
    /\ callPc' = [callPc EXCEPT ![c] = "registered"]
    /\ UNCHANGED <<sharedVars, lockVars, reqId, rx, result, taskVars,
                   networkVars>>

\* tokio::time::timeout polls the channel before it looks at the clock.
Timeout(c) ==
    /\ callPc[c] = "waiting"
    /\ rx[c] = Empty
    /\ Return(c, TimedOut)
    /\ UNCHANGED streamLock

\* The caller drops the future of the call at one of its awaits; the guard
\* and the receiver go with it, a frame in the write buffer does not.
Cancel(c) ==
    /\ callPc[c] \in {"numbered", "registered", "sending", "waiting"}
    /\ callPc' = [callPc EXCEPT ![c] = "cancelled"]
    /\ rx' = [rx EXCEPT ![c] = Empty]
    /\ streamLock' = IF streamLock = c THEN NoOne ELSE streamLock
    /\ UNCHANGED <<sharedVars, sessionLock, reqId, result, taskVars,
                   networkVars>>

\* What the task of a call that has begun does when it is polled.
CallProgress(c) ==
    \/ Register(c)
    \/ Refuse(c)
    \/ RefuseOversized(c)
    \/ BeginSend(c)
    \/ Flush(c)
    \/ FailSend(c)
    \/ Receive(c)
    \/ Timeout(c)

CallStep(c) == TakeId(c) \/ CallProgress(c) \/ Cancel(c)

-----------------------------------------------------------------------------
(* Client::connect.                                                        *)

\* The connection, HTTP/3, the session and its bidirectional stream.
ConnectOpen(p) ==
    /\ alive
    /\ connectPc[p] = "idle"
    /\ connectPc' = [connectPc EXCEPT ![p] = "opened"]
    /\ stream' = [stream EXCEPT ![p] = "open"]
    /\ UNCHANGED <<sharedVars, lockVars, callVars, closePc, handlerPc,
                   handlerStream, wbuf, toServer, atPeer, toClient>>

\* One of the five fallible steps returned an error: nothing is stored.
ConnectFail(p) ==
    /\ alive
    /\ connectPc[p] = "idle"
    /\ connectPc' = [connectPc EXCEPT ![p] = "failed"]
    /\ UNCHANGED <<sharedVars, lockVars, callVars, closePc, handlerPc,
                   handlerStream, networkVars>>

ConnectSession(p) ==
    /\ connectPc[p] = "opened"
    /\ sessionLock = NoOne
    /\ session' = p
    /\ connectPc' = [connectPc EXCEPT ![p] = "session_set"]
    /\ UNCHANGED <<alive, next_id, pending, message_stream, lockVars,
                   callVars, closePc, handlerPc, handlerStream, networkVars>>

\* The new stream replaces whatever the slot held; start_response_handler
\* spawns the handler and connect returns.
ConnectStream(p) ==
    /\ connectPc[p] = "session_set"
    /\ streamLock = NoOne
    /\ Release(message_stream)
    /\ message_stream' = p
    /\ connectPc' = [connectPc EXCEPT ![p] = "connected"]
    /\ handlerPc' = [handlerPc EXCEPT ![p] = "spawned"]
    /\ UNCHANGED <<alive, next_id, pending, session, lockVars, callVars,
                   closePc, handlerStream>>

ConnectStep(p) ==
    \/ ConnectOpen(p)
    \/ ConnectFail(p)
    \/ ConnectSession(p)
    \/ ConnectStream(p)

-----------------------------------------------------------------------------
(* The response-handler task.                                              *)

\* guard.take() moves the stream out of the slot (or finds none).
HandlerTake(h) ==
    /\ handlerPc[h] = "spawned"
    /\ streamLock = NoOne
    /\ handlerStream' = [handlerStream EXCEPT ![h] = message_stream]
    /\ message_stream' = NoOne
    /\ handlerPc' = [handlerPc EXCEPT
            ![h] = IF message_stream = NoOne THEN "exited" ELSE "reading"]
    /\ UNCHANGED <<alive, next_id, pending, session, lockVars, callVars,
                   connectPc, closePc, networkVars>>

\* A response is received, its sender removed from the pending map and the
\* response handed over, unless the caller is gone.
HandlerDispatch(h) ==
    LET s == handlerStream[h]
        m == Head(toClient[s])
    IN  /\ handlerPc[h] = "reading"
        /\ toClient[s] # <<>>
        /\ m # Garbage
        /\ toClient' = [toClient EXCEPT ![s] = Tail(@)]
        /\ pending' = [pending EXCEPT ![m.id] = NoOne]
        /\ rx' = [c \in Calls |-> IF pending[m.id] = c /\ Listening(c)
                                  THEN Outcome(m.tag, m.of) ELSE rx[c]]
        /\ UNCHANGED <<alive, next_id, session, message_stream, lockVars,
                       callPc, reqId, result, taskVars,
                       stream, wbuf, toServer, atPeer>>

HandlerSkip(h) ==
    LET s == handlerStream[h]
    IN  /\ handlerPc[h] = "reading"
        /\ toClient[s] # <<>>
        /\ Head(toClient[s]) = Garbage
        /\ toClient' = [toClient EXCEPT ![s] = Tail(@)]
        /\ UNCHANGED <<sharedVars, lockVars, callVars, taskVars,
                       stream, wbuf, toServer, atPeer>>

\* Mutant of HandlerEnd: an error of receive() does not end the loop.
HandlerEndOnNone(h) ==
    LET s == handlerStream[h]
    IN  /\ handlerPc[h] = "reading"
        /\ toClient[s] = <<>>
        /\ stream[s] = "ended"
        /\ handlerPc' = [handlerPc EXCEPT ![h] = "ending"]
        /\ UNCHANGED <<sharedVars, lockVars, callVars, connectPc, closePc,
                       handlerStream, networkVars>>

\* receive() returned None or an error.
HandlerEnd(h) ==
    LET s == handlerStream[h]
    IN  /\ handlerPc[h] = "reading"
        /\ toClient[s] = <<>>
        /\ stream[s] # "open"
        /\ handlerPc' = [handlerPc EXCEPT ![h] = "ending"]
        /\ UNCHANGED <<sharedVars, lockVars, callVars, connectPc, closePc,
                       handlerStream, networkVars>>

\* The handler's stream replaces whatever the slot holds by then.
HandlerPutBack(h) ==
    /\ handlerPc[h] = "ending"
    /\ streamLock = NoOne
    /\ Release(message_stream)
    /\ message_stream' = handlerStream[h]
    /\ handlerStream' = [handlerStream EXCEPT ![h] = NoOne]
    /\ handlerPc' = [handlerPc EXCEPT ![h] = "exited"]
    /\ UNCHANGED <<alive, next_id, pending, session, lockVars, callVars,
                   connectPc, closePc>>

HandlerStep(h) ==
    \/ HandlerTake(h)
    \/ HandlerDispatch(h)
    \/ HandlerSkip(h)
    \/ HandlerEnd(h)
    \/ HandlerPutBack(h)

-----------------------------------------------------------------------------
(* Client::close, and Drop.                                                *)

\* The session mutex is held until close returns.
CloseSession(x) ==
    /\ alive
    /\ closePc[x] = "idle"
    /\ sessionLock = NoOne
    /\ sessionLock' = x
    /\ session' = NoOne
    /\ TakeDown({session} \ {NoOne})
    /\ closePc' = [closePc EXCEPT ![x] = "session_closed"]
    /\ UNCHANGED <<alive, next_id, pending, message_stream, streamLock,
                   callVars, connectPc, handlerPc, handlerStream>>

\* Mutants of CloseStream: the slot is emptied without its mutex, and
\* try_lock with an early return when it fails.
CloseStreamUnlocked(x) ==
    /\ closePc[x] = "session_closed"
    /\ streamLock' = x
    /\ Release(message_stream)
    /\ message_stream' = NoOne
    /\ closePc' = [closePc EXCEPT ![x] = "stream_closed"]
    /\ UNCHANGED <<alive, next_id, pending, session, sessionLock, callVars,
                   connectPc, handlerPc, handlerStream>>

CloseStreamTry(x) ==
    /\ closePc[x] = "session_closed"
    /\ IF streamLock = NoOne
       THEN /\ streamLock' = x
            /\ Release(message_stream)
            /\ message_stream' = NoOne
            /\ closePc' = [closePc EXCEPT ![x] = "stream_closed"]
            /\ UNCHANGED sessionLock
       ELSE /\ sessionLock' = NoOne
            /\ closePc' = [closePc EXCEPT ![x] = "idle"]
            /\ UNCHANGED <<streamLock, message_stream, networkVars>>
    /\ UNCHANGED <<alive, next_id, pending, session, callVars,
                   connectPc, handlerPc, handlerStream>>

\* So is the stream mutex, once acquired.
CloseStream(x) ==
    /\ closePc[x] = "session_closed"
    /\ streamLock = NoOne
    /\ streamLock' = x
    /\ Release(message_stream)
    /\ message_stream' = NoOne
    /\ closePc' = [closePc EXCEPT ![x] = "stream_closed"]
    /\ UNCHANGED <<alive, next_id, pending, session, sessionLock, callVars,
                   connectPc, handlerPc, handlerStream>>

\* Mutant of ClosePending: id 0 is taken for an unset id.
ClosePendingFromOne(x) ==
    /\ closePc[x] = "stream_closed"
    /\ pending' = [i \in Ids |-> IF i = 0 THEN pending[i] ELSE NoOne]
    /\ rx' = [c \in Calls |->
            IF Listening(c) /\ \E i \in Ids \ {0} : pending[i] = c
            THEN ConnectionClosed ELSE rx[c]]
    /\ sessionLock' = NoOne
    /\ streamLock' = NoOne
    /\ closePc' = [closePc EXCEPT ![x] = "closed"]
    /\ UNCHANGED <<alive, next_id, session, message_stream, callPc, reqId,
                   result, connectPc, handlerPc, handlerStream, networkVars>>

ClosePending(x) ==
    /\ closePc[x] = "stream_closed"
    /\ pending' = [i \in Ids |-> NoOne]
    /\ rx' = [c \in Calls |->
            IF Listening(c) /\ \E i \in Ids : pending[i] = c
            THEN ConnectionClosed ELSE rx[c]]
    /\ sessionLock' = NoOne
    /\ streamLock' = NoOne
    /\ closePc' = [closePc EXCEPT ![x] = "closed"]
    /\ UNCHANGED <<alive, next_id, session, message_stream, callPc, reqId,
                   result, connectPc, handlerPc, handlerStream, networkVars>>

CloseStep(x) == CloseSession(x) \/ CloseStream(x) \/ ClosePending(x)

\* No invocation borrows the client any more.
Unborrowed ==
    /\ \A c \in Calls : callPc[c] \in {"idle", "returned", "cancelled"}
    /\ \A p \in Connects : connectPc[p] \in {"idle", "failed", "connected"}
    /\ \A x \in Closes : closePc[x] \in {"idle", "closed"}

\* Drop closes the endpoint, and with it every connection.
DropClient ==
    /\ alive
    /\ Unborrowed
    /\ alive' = FALSE
    /\ TakeDown({s \in Connects : stream[s] # "none"})
    /\ UNCHANGED <<next_id, pending, session, message_stream, lockVars,
                   callVars, taskVars>>

-----------------------------------------------------------------------------

\* The client is gone; the process that used it lives on.
Finished == ~ alive /\ UNCHANGED vars

Next ==
    \/ \E c \in Calls : CallStep(c)
    \/ \E p \in Connects : ConnectStep(p) \/ HandlerStep(p)
    \/ \E x \in Closes : CloseStep(x)
    \/ DropClient
    \/ Environment
    \/ Finished

Spec == Init /\ [][Next]_vars

\* The tokio runtime polls every task that can make progress, timers fire,
\* and its mutex serves waiters in FIFO order, so that a task waiting for a
\* mutex that is released again and again gets it (strong fairness).
\* Nothing obliges a caller to start, cancel, connect, close or drop.
TaskFairness ==
    /\ \A c \in Calls : SF_vars(CallProgress(c))
    /\ \A p \in Connects :
        /\ SF_vars(ConnectSession(p) \/ ConnectStream(p))
        /\ SF_vars(HandlerStep(p))
    /\ \A x \in Closes : SF_vars(CloseStream(x) \/ ClosePending(x))

FairSpec == Spec /\ TaskFairness

\* A peer that keeps reading its end of every stream.
ReadingPeerSpec == FairSpec /\ \A s \in Connects : WF_vars(PeerRead(s))

-----------------------------------------------------------------------------
(* Properties.                                                             *)

TypeOK ==
    /\ alive \in BOOLEAN
    /\ next_id \in Ids
    /\ pending \in [Ids -> Calls \cup {NoOne}]
    /\ session \in Connects \cup {NoOne}
    /\ sessionLock \in Closes \cup {NoOne}
    /\ message_stream \in Connects \cup {NoOne}
    /\ streamLock \in Calls \cup Closes \cup {NoOne}
    /\ callPc \in [Calls -> {"idle", "numbered", "registered", "sending",
                             "waiting", "returned", "cancelled"}]
    /\ reqId \in [Calls -> Ids]
    /\ rx \in [Calls -> Channel]
    /\ result \in [Calls -> Outcomes]
    /\ connectPc \in [Connects -> {"idle", "failed", "opened",
                                   "session_set", "connected"}]
    /\ closePc \in [Closes -> {"idle", "session_closed", "stream_closed",
                               "closed"}]
    /\ handlerPc \in [Connects -> {"none", "spawned", "reading", "ending",
                                   "exited"}]
    /\ handlerStream \in [Connects -> Connects \cup {NoOne}]
    /\ stream \in [Connects -> {"none", "open", "ended", "finished", "down"}]
    /\ wbuf \in [Connects -> Seq(Request)]
    /\ toServer \in [Connects -> Seq(Request)]
    /\ atPeer \in [Connects -> SUBSET Request]
    /\ toClient \in [Connects -> Seq(Response \cup {Garbage})]

-----------------------------------------------------------------------------
(* Safety.                                                                 *)

\* A call that returns an answer returns the answer to its own request, not
\* the one to another call's: ids are unique among the calls, and no id is
\* registered, sent, displaced or dispatched under another call's name.
ResponseMatchesCall ==
    \A c \in Calls : result[c] \in Answers => result[c].of = c

\* A call that may still be answered is in the pending map under the id its
\* request carries: no dispatch, close or registration of another call took
\* its sender away without telling it.
WaiterIsPending ==
    \A c \in Calls : Listening(c) /\ rx[c] = Empty => pending[reqId[c]] = c

\* While a call is in the middle of a send it alone holds the stream mutex,
\* the slot still holds a stream, and its own frame is the newest in that
\* stream's write buffer: connect, close and the handlers, which all
\* exchange the stream in the slot, cannot do it under a writer.
SenderHoldsStream ==
    \A c \in Calls : callPc[c] = "sending" =>
        /\ streamLock = c
        /\ message_stream # NoOne
        /\ wbuf[message_stream] # <<>>
        /\ wbuf[message_stream][Len(wbuf[message_stream])].of = c

\* When close drains the pending map, no call that might still be answered
\* is left without an outcome in its channel.
CloseWakesEveryWaiter ==
    [][\A x \in Closes : ClosePending(x) =>
            \A c \in Calls : Listening(c) => rx'[c] # Empty]_vars

-----------------------------------------------------------------------------
(* Liveness.                                                               *)

\* A call that was issued returns, or its caller cancels it, whatever other
\* calls, connects, closes and losses do meanwhile.
CallReturns ==
    \A c \in Calls :
        callPc[c] = "numbered" ~> callPc[c] \in {"returned", "cancelled"}

\* A close that was begun completes: it waits for the stream mutex while it
\* holds the session mutex, and holds both while it clears the pending map.
CloseReturns ==
    \A x \in Closes : closePc[x] = "session_closed" ~> closePc[x] = "closed"

\* Dropping the client, which only closes the endpoint, ends every response
\* handler, although nothing joins or aborts the tasks.
HandlersExitAfterDrop ==
    ~ alive ~> \A h \in Connects : handlerPc[h] \in {"none", "exited"}

-----------------------------------------------------------------------------
(* What the sources say of the client and the code does not keep.          *)

\* benches/benchmarks.rs calls right after connect has returned and unwraps
\* the result: a call on a client whose connected stream is open would not
\* be refused with ConnectionClosed.
ConnectedCallIsSent ==
    [][\A c \in Calls : Refuse(c) =>
            \A p \in Connects :
                connectPc[p] = "connected" /\ session = p
                    => stream[p] # "open"]_vars

=============================================================================
