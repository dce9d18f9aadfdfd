---------------------------- MODULE ServerAccept ----------------------------
(***************************************************************************)
(* How the server of src/src/server.rs comes by its sessions: the loop of  *)
(* serve, which takes connections from the QUIC endpoint and waits for     *)
(* their handshakes one after the other, and one handle_connection task    *)
(* per connection, which accepts or rejects the requests for WebTransport  *)
(* sessions.  What a session does is the subject of Server.                *)
(***************************************************************************)
EXTENDS Naturals, Sequences

CONSTANTS
    Connections, \* the connections that peers attempt
    Requests,    \* the session requests that peers make on them
    ConnOf,      \* the connection of each request
    RpcRequests, \* those whose path is "/rpc"
    NoOne        \* None

ASSUME AcceptAssumption ==
    /\ ConnOf \in [Requests -> Connections]
    /\ RpcRequests \subseteq Requests
    /\ NoOne \notin Connections \cup Requests

VARIABLES
    idle_timeout, \* Config.idle_timeout_ms is not 0, which turns it off
    endpoint,  \* the QUIC endpoint is "open", or "closed"
    backlog,   \* the connections it has not handed to serve yet
    conn,      \* the transport's view of each connection
    servePc,   \* where serve is
    current,   \* the connection whose handshake serve awaits
    handlerPc, \* where the handle_connection task of each connection is
    handling,  \* the request it is accepting or rejecting
    request,   \* what has become of each request
    session    \* the handle_session task of each request

netVars     == <<idle_timeout, endpoint, backlog, conn>>
serveVars   == <<servePc, current>>
handlerVars == <<handlerPc, handling>>
vars == <<netVars, serveVars, handlerVars, request, session>>

Init ==
    /\ idle_timeout \in BOOLEAN
    /\ endpoint = "open"
    /\ backlog = <<>>
    /\ conn = [c \in Connections |-> "none"]
    /\ servePc = "accepting"
    /\ current = NoOne
    /\ handlerPc = [c \in Connections |-> "none"]
    /\ handling = [c \in Connections |-> NoOne]
    /\ request = [q \in Requests |-> "none"]
    /\ session = [q \in Requests |-> "none"]

-----------------------------------------------------------------------------
(* Peers, and the QUIC endpoint.                                           *)
(*                                                                         *)
(* A connection is "established" when its handshake has completed, and     *)
(* "leaving" once the peer has said, as HTTP/3 lets it, that it will ask   *)
(* for nothing more.                                                       *)

Up(c) == conn[c] \in {"established", "leaving"}

Attempt(c) ==
    /\ endpoint = "open"
    /\ conn[c] = "none"
    /\ conn' = [conn EXCEPT ![c] = "handshake"]
    /\ backlog' = Append(backlog, c)
    /\ UNCHANGED <<idle_timeout, endpoint, serveVars, handlerVars, request,
                   session>>

\* The peer completes the handshake.
Establish(c) ==
    /\ conn[c] = "handshake"
    /\ conn' = [conn EXCEPT ![c] = "established"]
    /\ UNCHANGED <<idle_timeout, endpoint, backlog, serveVars, handlerVars,
                   request, session>>

\* The peer shuts its side of HTTP/3 down.
Leave(c) ==
    /\ conn[c] = "established"
    /\ conn' = [conn EXCEPT ![c] = "leaving"]
    /\ UNCHANGED <<idle_timeout, endpoint, backlog, serveVars, handlerVars,
                   request, session>>

\* The handshake fails or times out, or the connection is closed or lost.
Lose(c) ==
    /\ conn[c] = "handshake" \/ Up(c)
    /\ conn' = [conn EXCEPT ![c] = "lost"]
    /\ UNCHANGED <<idle_timeout, endpoint, backlog, serveVars, handlerVars,
                   request, session>>

\* The endpoint stops, and with it every connection.
CloseEndpoint ==
    /\ endpoint = "open"
    /\ endpoint' = "closed"
    /\ conn' = [c \in Connections |->
                    IF conn[c] = "none" THEN "none" ELSE "lost"]
    /\ UNCHANGED <<idle_timeout, backlog, serveVars, handlerVars, request,
                   session>>

Offer(q) ==
    /\ conn[ConnOf[q]] = "established"
    /\ request[q] = "none"
    /\ request' = [request EXCEPT ![q] = "offered"]
    /\ UNCHANGED <<netVars, serveVars, handlerVars, session>>

-----------------------------------------------------------------------------
(* Server::serve.                                                          *)

TakeIncoming ==
    /\ servePc = "accepting"
    /\ backlog # <<>>
    /\ current' = Head(backlog)
    /\ backlog' = Tail(backlog)
    /\ servePc' = "handshaking"
    /\ UNCHANGED <<idle_timeout, endpoint, conn, handlerVars, request,
                   session>>

\* The task of the connection is spawned.
HandshakeDone ==
    /\ servePc = "handshaking"
    /\ Up(current)
    /\ handlerPc' = [handlerPc EXCEPT ![current] = "starting"]
    /\ servePc' = "accepting"
    /\ current' = NoOne
    /\ UNCHANGED <<netVars, handling, request, session>>

\* Mutants of HandshakeFailed: the error ends serve, and serve waits for the
\* same connection again.
HandshakeFailedReturns ==
    /\ servePc = "handshaking"
    /\ conn[current] = "lost"
    /\ servePc' = "returned"
    /\ current' = NoOne
    /\ UNCHANGED <<netVars, handlerVars, request, session>>

HandshakeFailedRetried ==
    /\ servePc = "handshaking"
    /\ conn[current] = "lost"
    /\ UNCHANGED vars

HandshakeFailed ==
    /\ servePc = "handshaking"
    /\ conn[current] = "lost"
    /\ servePc' = "accepting"
    /\ current' = NoOne
    /\ UNCHANGED <<netVars, handlerVars, request, session>>

\* Mutant of ServeReturns: the loop goes on.
ServeSpins ==
    /\ servePc = "accepting"
    /\ backlog = <<>>
    /\ endpoint = "closed"
    /\ UNCHANGED vars

\* endpoint.accept() gives None; the tasks spawned so far go on.
ServeReturns ==
    /\ servePc = "accepting"
    /\ backlog = <<>>
    /\ endpoint = "closed"
    /\ servePc' = "returned"
    /\ UNCHANGED <<netVars, current, handlerVars, request, session>>

ServeStep ==
    TakeIncoming \/ HandshakeDone \/ HandshakeFailed \/ ServeReturns

-----------------------------------------------------------------------------
(* handle_connection.                                                      *)

\* HTTP/3 and the acceptor of sessions are set up, as far as the peer lets
\* the server open the streams that takes.
Start(c) ==
    /\ handlerPc[c] = "starting"
    /\ Up(c)
    /\ handlerPc' = [handlerPc EXCEPT ![c] = "accepting"]
    /\ UNCHANGED <<netVars, serveVars, handling, request, session>>

\* The task returns; the HTTP/3 connection is dropped and closed with it.
Finish(c) ==
    /\ handlerPc' = [handlerPc EXCEPT ![c] = "done"]
    /\ handling' = [handling EXCEPT ![c] = NoOne]
    /\ conn' = [conn EXCEPT ![c] = "lost"]
    /\ UNCHANGED <<idle_timeout, endpoint, backlog, serveVars, session>>

\* The peer does not speak HTTP/3, or is gone.
StartFails(c) ==
    /\ handlerPc[c] = "starting"
    /\ Finish(c)
    /\ UNCHANGED request

\* acceptor.accept() gives the next request.
TakeRequest(c) ==
    /\ handlerPc[c] = "accepting"
    /\ Up(c)
    /\ \E q \in Requests :
        /\ ConnOf[q] = c /\ request[q] = "offered"
        /\ handling' = [handling EXCEPT ![c] = q]
        /\ request' = [request EXCEPT ![q] = "taken"]
    /\ handlerPc' = [handlerPc EXCEPT ![c] = "answering"]
    /\ UNCHANGED <<netVars, serveVars, session>>

\* Mutant of NoMoreRequests: a connection that is lost is taken for one
\* that has no request yet.
NoMoreRequestsYet(c) ==
    /\ handlerPc[c] = "accepting"
    /\ conn[c] = "lost"
    /\ UNCHANGED vars

\* acceptor.accept() gives None: the connection is lost, or the peer will
\* ask for nothing more and has had all its requests taken.
NoMoreRequests(c) ==
    /\ handlerPc[c] = "accepting"
    /\ \/ conn[c] = "lost"
       \/ /\ conn[c] = "leaving"
          /\ \A q \in Requests : ConnOf[q] = c => request[q] # "offered"
    /\ Finish(c)
    /\ UNCHANGED request

\* The task of the session is spawned; this one takes the next request.
AcceptSession(c) ==
    LET q == handling[c]
    IN  /\ handlerPc[c] = "answering"
        /\ q \in RpcRequests
        /\ Up(c)
        /\ request' = [request EXCEPT ![q] = "accepted"]
        /\ session' = [session EXCEPT ![q] = "running"]
        /\ handlerPc' = [handlerPc EXCEPT ![c] = "accepting"]
        /\ handling' = [handling EXCEPT ![c] = NoOne]
        /\ UNCHANGED <<netVars, serveVars>>

\* Mutants of AcceptFails: the error is propagated with ?, and it ends the
\* loop while the connection stays.
AcceptFailsReturns(c) ==
    LET q == handling[c]
    IN  /\ handlerPc[c] = "answering"
        /\ q \in RpcRequests
        /\ request' = [request EXCEPT ![q] = "failed"]
        /\ Finish(c)

AcceptFailsStops(c) ==
    LET q == handling[c]
    IN  /\ handlerPc[c] = "answering"
        /\ q \in RpcRequests
        /\ request' = [request EXCEPT ![q] = "failed"]
        /\ handlerPc' = [handlerPc EXCEPT ![c] = "done"]
        /\ handling' = [handling EXCEPT ![c] = NoOne]
        /\ UNCHANGED <<netVars, serveVars, session>>

AcceptFails(c) ==
    LET q == handling[c]
    IN  /\ handlerPc[c] = "answering"
        /\ q \in RpcRequests
        /\ request' = [request EXCEPT ![q] = "failed"]
        /\ handlerPc' = [handlerPc EXCEPT ![c] = "accepting"]
        /\ handling' = [handling EXCEPT ![c] = NoOne]
        /\ UNCHANGED <<netVars, serveVars, session>>

\* The path is not "/rpc".  ErrorLevel::ConnectionError closes the whole
\* connection; the task sees that when it looks for the next request.
Reject(c) ==
    LET q == handling[c]
    IN  /\ handlerPc[c] = "answering"
        /\ q \notin RpcRequests
        /\ Up(c)
        /\ request' = [request EXCEPT ![q] = "rejected"]
        /\ conn' = [conn EXCEPT ![c] = "lost"]
        /\ handlerPc' = [handlerPc EXCEPT ![c] = "accepting"]
        /\ handling' = [handling EXCEPT ![c] = NoOne]
        /\ UNCHANGED <<idle_timeout, endpoint, backlog, serveVars, session>>

RejectFails(c) ==
    LET q == handling[c]
    IN  /\ handlerPc[c] = "answering"
        /\ q \notin RpcRequests
        /\ request' = [request EXCEPT ![q] = "failed"]
        /\ Finish(c)

HandlerStep(c) ==
    \/ Start(c)
    \/ StartFails(c)
    \/ TakeRequest(c)
    \/ NoMoreRequests(c)
    \/ AcceptSession(c)
    \/ AcceptFails(c)
    \/ Reject(c)
    \/ RejectFails(c)

\* handle_session returns, with an error when its connection is gone.
SessionEnds(q) ==
    /\ session[q] = "running"
    /\ session' = [session EXCEPT ![q] = "ended"]
    /\ UNCHANGED <<netVars, serveVars, handlerVars, request>>

-----------------------------------------------------------------------------

\* serve has returned and every task it started has ended.
Terminated ==
    /\ servePc = "returned"
    /\ \A c \in Connections : handlerPc[c] \in {"none", "done"}
    /\ \A q \in Requests : session[q] # "running"
    /\ UNCHANGED vars

Next ==
    \/ \E c \in Connections :
          \/ Attempt(c) \/ Establish(c) \/ Leave(c) \/ Lose(c)
          \/ HandlerStep(c)
    \/ \E q \in Requests : Offer(q) \/ SessionEnds(q)
    \/ CloseEndpoint
    \/ ServeStep
    \/ Terminated

Spec == Init /\ [][Next]_vars

\* What the task of a connection does without waiting for more of its peer:
\* HTTP/3 is set up with a peer that uses it, a connection that is lost is
\* given up, and a request that was made is taken and answered.
HandlerProgress(c) ==
    \/ /\ \E q \in Requests : ConnOf[q] = c /\ request[q] = "offered"
       /\ Start(c)
    \/ conn[c] = "lost" /\ (StartFails(c) \/ NoMoreRequests(c))
    \/ TakeRequest(c)
    \/ AcceptSession(c) \/ AcceptFails(c)
    \/ Reject(c) \/ RejectFails(c)

\* Tasks are polled.  QUIC gives up a connection whose peer has fallen silent
\* before the end of the handshake if there is an idle timeout, and never if
\* the configuration has turned that off.
\* Peers need neither connect, nor ask for sessions, nor keep a connection.
FairSpec ==
    /\ Spec
    /\ WF_vars(ServeStep)
    /\ \A c \in Connections :
        /\ WF_vars(/\ idle_timeout
                   /\ Establish(c) \/ (conn[c] = "handshake" /\ Lose(c)))
        /\ WF_vars(HandlerProgress(c))
    /\ \A q \in Requests :
          WF_vars(conn[ConnOf[q]] = "lost" /\ SessionEnds(q))

-----------------------------------------------------------------------------
(* Properties.                                                             *)

TypeOK ==
    /\ idle_timeout \in BOOLEAN
    /\ endpoint \in {"open", "closed"}
    /\ backlog \in Seq(Connections)
    /\ conn \in [Connections -> {"none", "handshake", "established",
                                 "leaving", "lost"}]
    /\ servePc \in {"accepting", "handshaking", "returned"}
    /\ current \in Connections \cup {NoOne}
    /\ servePc = "handshaking" => current # NoOne
    /\ handlerPc \in [Connections -> {"none", "starting", "accepting",
                                      "answering", "done"}]
    /\ handling \in [Connections -> Requests \cup {NoOne}]
    /\ request \in [Requests -> {"none", "offered", "taken", "accepted",
                                 "rejected", "failed"}]
    /\ session \in [Requests -> {"none", "running", "ended"}]

\* serve neither forgets a connection nor starts two tasks for one: an
\* attempted connection is still queued, or the one serve waits for, or has
\* a task, or was lost before it could get one, and serve does not return
\* while an established connection waits for its task.
Queued(c) == \E i \in 1 .. Len(backlog) : backlog[i] = c

ConnectionsAccounted ==
    \A c \in Connections :
        /\ conn[c] = "handshake" \/ Up(c) =>
              Queued(c) \/ current = c \/ handlerPc[c] # "none"
        /\ (Queued(c) \/ current = c) =>
              /\ handlerPc[c] = "none"
              /\ ~ (Queued(c) /\ current = c)
              /\ servePc = "returned" => conn[c] = "lost"

\* The server gives up a connection that its peer keeps, and the sessions on
\* it, only because HTTP/3 could not be set up or because of a request for
\* another path: a session that cannot be accepted does not cost the others
\* theirs.
ConnectionKept ==
    [][\A c \in Connections :
        conn[c] = "established" /\ conn'[c] = "lost" =>
            \/ Lose(c) \/ CloseEndpoint
            \/ StartFails(c)
            \/ handling[c] # NoOne /\ handling[c] \notin RpcRequests]_vars

\* With an idle timeout, a connection whose peer has completed the handshake
\* gets its task, although serve waits for the handshakes of those before it,
\* one after the other, which may fail.  Without one a silent peer holds serve
\* for ever, and every connection behind its own.
ConnectionTakenUp ==
    \A c \in Connections :
        idle_timeout /\ conn[c] = "established" ~>
            handlerPc[c] # "none" \/ conn[c] = "lost"

\* Then every request gets its answer as long as its connection lasts,
\* whatever became of the requests before it.
RequestDecided ==
    \A q \in Requests :
        idle_timeout /\ request[q] = "offered" ~>
            request[q] \in {"accepted", "rejected", "failed"}
                \/ conn[ConnOf[q]] = "lost"

\* A connection that is lost, or that a rejected request has closed under the
\* sessions that were accepted on it, leaves no task behind for good.
LostConnectionCleared ==
    \A c \in Connections :
        conn[c] = "lost" ~>
            [](/\ handlerPc[c] \in {"none", "done"}
               /\ \A q \in Requests : ConnOf[q] = c => session[q] # "running")

\* Once the endpoint has closed, serve returns and every task ends.
ServeWindsUp ==
    endpoint = "closed" ~>
        /\ servePc = "returned"
        /\ \A c \in Connections : handlerPc[c] \in {"none", "done"}
        /\ \A q \in Requests : session[q] # "running"

=============================================================================
