---------------------------- MODULE AcceptProofs ----------------------------
(***************************************************************************)
(* Proofs about ServerAccept: that no connection is forgotten or taken up  *)
(* twice, and what may cost a connection, for any number of connections    *)
(* and requests.                                                           *)
(***************************************************************************)
EXTENDS ServerAccept, TLAPS

USE DEF netVars, serveVars, handlerVars, vars, Up

-----------------------------------------------------------------------------
(* The backlog.                                                            *)

\* No connection is in the backlog twice.
NoRepetition ==
    \A i, j \in 1 .. Len(backlog) : backlog[i] = backlog[j] => i = j

LEMMA AppendQueues ==
    ASSUME backlog \in Seq(Connections), NEW c \in Connections,
           backlog' = Append(backlog, c)
    PROVE  /\ backlog' \in Seq(Connections)
           /\ \A d \in Connections : Queued(d)' <=> Queued(d) \/ d = c
           /\ NoRepetition /\ ~ Queued(c) => NoRepetition'
<1>1. /\ backlog' \in Seq(Connections)
      /\ Len(backlog) \in Nat
      /\ Len(backlog') = Len(backlog) + 1
      /\ backlog'[Len(backlog) + 1] = c
      /\ \A i \in 1 .. Len(backlog) : backlog'[i] = backlog[i]
    OBVIOUS
<1>2. \A d \in Connections : Queued(d)' <=> Queued(d) \/ d = c
    BY <1>1 DEF Queued
<1>3. NoRepetition /\ ~ Queued(c) => NoRepetition'
    BY <1>1 DEF Queued, NoRepetition
<1> QED
    BY <1>1, <1>2, <1>3

LEMMA TailTakes ==
    ASSUME backlog \in Seq(Connections), backlog # <<>>, NoRepetition,
           backlog' = Tail(backlog)
    PROVE  /\ backlog' \in Seq(Connections)
           /\ Head(backlog) \in Connections /\ Queued(Head(backlog))
           /\ \A d \in Connections :
                Queued(d)' <=> Queued(d) /\ d # Head(backlog)
           /\ NoRepetition'
<1>1. /\ backlog' \in Seq(Connections)
      /\ Len(backlog) \in Nat \ {0}
      /\ Len(backlog') = Len(backlog) - 1
      /\ Head(backlog) = backlog[1] /\ backlog[1] \in Connections
      /\ \A i \in 1 .. Len(backlog') : backlog'[i] = backlog[i + 1]
    OBVIOUS
<1>2. Queued(Head(backlog))
    BY <1>1 DEF Queued
<1>3. ASSUME NEW d \in Connections
      PROVE  Queued(d)' <=> Queued(d) /\ d # Head(backlog)
    <2>1. ASSUME Queued(d)' PROVE Queued(d) /\ d # Head(backlog)
        <3>1. PICK i \in 1 .. Len(backlog') : backlog'[i] = d
            BY <2>1 DEF Queued
        <3>2. i + 1 \in 1 .. Len(backlog) /\ backlog[i + 1] = d
            BY <1>1, <3>1
        <3>3. d # backlog[1]
            BY <1>1, <3>1, <3>2 DEF NoRepetition
        <3> QED
            BY <1>1, <3>2, <3>3 DEF Queued
    <2>2. ASSUME Queued(d), d # Head(backlog) PROVE Queued(d)'
        <3>1. PICK i \in 1 .. Len(backlog) : backlog[i] = d
            BY <2>2 DEF Queued
        <3>2. i - 1 \in 1 .. Len(backlog')
            BY <1>1, <2>2, <3>1
        <3>3. backlog'[i - 1] = d
            BY <1>1, <3>1, <3>2
        <3> QED
            BY <3>2, <3>3 DEF Queued
    <2> QED
        BY <2>1, <2>2
<1>4. NoRepetition'
    BY <1>1 DEF NoRepetition
<1> QED
    BY <1>1, <1>2, <1>3, <1>4

-----------------------------------------------------------------------------
(* Connections.                                                            *)

\* A connection that nobody has attempted is nowhere, an endpoint that is
\* closed has none, and serve returns after that.
ConnInv ==
    /\ TypeOK
    /\ NoRepetition
    /\ servePc = "handshaking" <=> current # NoOne
    /\ servePc = "returned" => endpoint = "closed"
    /\ endpoint = "closed" =>
          \A c \in Connections : conn[c] \in {"none", "lost"}
    /\ \A c \in Connections :
        /\ conn[c] = "none" =>
              ~ Queued(c) /\ current # c /\ handlerPc[c] = "none"
        /\ conn[c] = "handshake" \/ Up(c) =>
              Queued(c) \/ current = c \/ handlerPc[c] # "none"
        /\ Queued(c) \/ current = c =>
              handlerPc[c] = "none" /\ ~ (Queued(c) /\ current = c)

LEMMA ConnInit == Init => ConnInv
BY AcceptAssumption DEF Init, ConnInv, TypeOK, NoRepetition, Queued

LEMMA NetStep ==
    ASSUME ConnInv, NEW c \in Connections,
           \/ Attempt(c) \/ Establish(c) \/ Leave(c) \/ Lose(c)
           \/ CloseEndpoint
    PROVE  ConnInv'
<1>1. CASE Attempt(c)
    <2>1. ~ Queued(c) /\ current # c /\ handlerPc[c] = "none"
        BY <1>1 DEF ConnInv, Attempt
    <2>2. /\ backlog' \in Seq(Connections)
          /\ \A d \in Connections : Queued(d)' <=> Queued(d) \/ d = c
          /\ NoRepetition'
        BY <1>1, <2>1, AppendQueues DEF ConnInv, TypeOK, Attempt
    <2>3. TypeOK'
        BY <1>1, <2>2 DEF ConnInv, TypeOK, Attempt
    <2>4. /\ conn' \in [Connections -> {"none", "handshake", "established",
                                        "leaving", "lost"}]
          /\ conn'[c] = "handshake"
          /\ \A d \in Connections \ {c} : conn'[d] = conn[d]
        BY <1>1 DEF ConnInv, TypeOK, Attempt
    <2> QED
        BY <1>1, <2>1, <2>2, <2>3, <2>4 DEF ConnInv, Attempt
<1>2. CASE Establish(c) \/ Leave(c) \/ Lose(c) \/ CloseEndpoint
    <2>1. /\ backlog' = backlog /\ current' = current /\ servePc' = servePc
          /\ handlerPc' = handlerPc
        BY <1>2 DEF Establish, Leave, Lose, CloseEndpoint
    <2>2. /\ NoRepetition' <=> NoRepetition
          /\ \A d \in Connections : Queued(d)' <=> Queued(d)
        BY <2>1 DEF NoRepetition, Queued
    <2>3. TypeOK'
        BY <1>2 DEF ConnInv, TypeOK, Establish, Leave, Lose, CloseEndpoint
    <2>4. /\ \A d \in Connections : conn'[d] = "none" => conn[d] = "none"
          /\ \A d \in Connections :
                conn'[d] = "handshake" \/ Up(d)' =>
                    conn[d] = "handshake" \/ Up(d)
          /\ endpoint' = "closed" =>
                \A d \in Connections : conn'[d] \in {"none", "lost"}
        BY <1>2 DEF ConnInv, TypeOK, Establish, Leave, Lose, CloseEndpoint
    <2>5. endpoint = "closed" => endpoint' = "closed"
        BY <1>2 DEF Establish, Leave, Lose, CloseEndpoint
    <2> QED
        BY <2>1, <2>2, <2>3, <2>4, <2>5 DEF ConnInv
<1> QED
    BY <1>1, <1>2

LEMMA ServeConnStep ==
    ASSUME ConnInv, ServeStep
    PROVE  ConnInv'
<1>1. CASE TakeIncoming
    <2>1. /\ backlog' \in Seq(Connections)
          /\ Head(backlog) \in Connections /\ Queued(Head(backlog))
          /\ \A d \in Connections :
                Queued(d)' <=> Queued(d) /\ d # Head(backlog)
          /\ NoRepetition'
        BY <1>1, TailTakes DEF ConnInv, TypeOK, TakeIncoming
    <2>2. current = NoOne /\ current' = Head(backlog) /\ current' # NoOne
        BY <1>1, <2>1, AcceptAssumption DEF ConnInv, TakeIncoming
    <2>3. TypeOK'
        BY <1>1, <2>1, <2>2 DEF ConnInv, TypeOK, TakeIncoming
    <2>4. \A d \in Connections : current # d
        BY <2>2, AcceptAssumption
    <2> QED
        BY <1>1, <2>1, <2>2, <2>3, <2>4 DEF ConnInv, TakeIncoming
<1>2. CASE HandshakeDone \/ HandshakeFailed \/ ServeReturns
    <2>1. /\ backlog' = backlog /\ conn' = conn /\ endpoint' = endpoint
        BY <1>2 DEF HandshakeDone, HandshakeFailed, ServeReturns
    <2>2. /\ NoRepetition' <=> NoRepetition
          /\ \A d \in Connections : Queued(d)' <=> Queued(d)
        BY <2>1 DEF NoRepetition, Queued
    <2>3. \A d \in Connections : NoOne # d
        BY AcceptAssumption
    <2>4. CASE HandshakeDone
        <3>1. TypeOK'
            BY <2>4 DEF ConnInv, TypeOK, HandshakeDone
        <3>2. current \in Connections /\ current' = NoOne
            BY <2>4, <2>3 DEF ConnInv, TypeOK, HandshakeDone
        <3>3. /\ handlerPc'[current] = "starting"
              /\ \A d \in Connections \ {current} :
                    handlerPc'[d] = handlerPc[d]
            BY <2>4, <3>2 DEF ConnInv, TypeOK, HandshakeDone
        <3> QED
            BY <2>1, <2>2, <2>3, <2>4, <3>1, <3>2, <3>3
            DEF ConnInv, HandshakeDone
    <2>5. CASE HandshakeFailed \/ ServeReturns
        <3>1. TypeOK'
            BY <2>5 DEF ConnInv, TypeOK, HandshakeFailed, ServeReturns
        <3> QED
            BY <2>1, <2>2, <2>3, <2>5, <3>1
            DEF ConnInv, HandshakeFailed, ServeReturns
    <2> QED
        BY <1>2, <2>4, <2>5
<1> QED
    BY <1>1, <1>2 DEF ServeStep

LEMMA HandlerTypes ==
    ASSUME TypeOK, NEW c \in Connections, HandlerStep(c)
    PROVE  TypeOK'
<1> USE DEF TypeOK
<1>1. CASE Start(c)
    BY <1>1 DEF Start
<1>2. CASE StartFails(c) \/ NoMoreRequests(c)
    BY <1>2 DEF StartFails, NoMoreRequests, Finish
<1>3. CASE TakeRequest(c)
    BY <1>3 DEF TakeRequest
<1>4. CASE AcceptSession(c)
    BY <1>4 DEF AcceptSession
<1>5. CASE AcceptFails(c)
    BY <1>5 DEF AcceptFails
<1>6. CASE Reject(c)
    BY <1>6 DEF Reject
<1>7. CASE RejectFails(c)
    BY <1>7 DEF RejectFails, Finish
<1> QED
    BY <1>1, <1>2, <1>3, <1>4, <1>5, <1>6, <1>7 DEF HandlerStep

\* What a step of a connection's task does to connections: the task goes on,
\* and its connection may be lost.
LEMMA HandlerEffect ==
    ASSUME TypeOK, NEW c \in Connections, HandlerStep(c)
    PROVE  /\ UNCHANGED <<endpoint, backlog, serveVars>>
           /\ handlerPc[c] # "none" /\ handlerPc'[c] # "none"
           /\ \A d \in Connections \ {c} :
                /\ handlerPc'[d] = handlerPc[d]
                /\ conn'[d] = conn[d]
           /\ conn'[c] \in {conn[c], "lost"}
<1> USE DEF TypeOK
<1>1. CASE Start(c) \/ TakeRequest(c) \/ AcceptSession(c) \/ AcceptFails(c)
    BY <1>1 DEF Start, TakeRequest, AcceptSession, AcceptFails
<1>2. CASE StartFails(c) \/ NoMoreRequests(c) \/ RejectFails(c)
    BY <1>2 DEF StartFails, NoMoreRequests, RejectFails, Finish
<1>3. CASE Reject(c)
    BY <1>3 DEF Reject
<1> QED
    BY <1>1, <1>2, <1>3 DEF HandlerStep

LEMMA HandlerConnStep ==
    ASSUME ConnInv, NEW c \in Connections, HandlerStep(c)
    PROVE  ConnInv'
<1>1. TypeOK'
    BY HandlerTypes DEF ConnInv
<1>2. /\ UNCHANGED <<endpoint, backlog, serveVars>>
      /\ handlerPc[c] # "none" /\ handlerPc'[c] # "none"
      /\ \A d \in Connections \ {c} :
            handlerPc'[d] = handlerPc[d] /\ conn'[d] = conn[d]
      /\ conn'[c] \in {conn[c], "lost"}
    BY HandlerEffect DEF ConnInv
<1>3. /\ NoRepetition' <=> NoRepetition
      /\ \A d \in Connections : Queued(d)' <=> Queued(d)
    BY <1>2 DEF NoRepetition, Queued
<1> QED
    BY <1>1, <1>2, <1>3 DEF ConnInv

LEMMA RequestConnStep ==
    ASSUME ConnInv,
           \/ \E q \in Requests : Offer(q) \/ SessionEnds(q)
           \/ UNCHANGED vars
    PROVE  ConnInv'
<1>1. UNCHANGED <<netVars, serveVars, handlerVars>>
    BY DEF Offer, SessionEnds
<1>2. TypeOK'
    BY DEF ConnInv, TypeOK, Offer, SessionEnds
<1>3. /\ NoRepetition' <=> NoRepetition
      /\ \A d \in Connections : Queued(d)' <=> Queued(d)
    BY <1>1 DEF NoRepetition, Queued
<1> QED
    BY <1>1, <1>2, <1>3 DEF ConnInv

LEMMA ConnStep == ConnInv /\ [Next]_vars => ConnInv'
<1> SUFFICES ASSUME ConnInv, [Next]_vars PROVE ConnInv'
    OBVIOUS
<1>1. CASE \E c \in Connections :
              Attempt(c) \/ Establish(c) \/ Leave(c) \/ Lose(c)
    BY <1>1, NetStep
<1>2. CASE CloseEndpoint
    <2>1. CASE Connections = {}
        <3>1. TypeOK'
            BY <1>2 DEF ConnInv, TypeOK, CloseEndpoint
        <3>2. NoRepetition' <=> NoRepetition
            BY <1>2 DEF NoRepetition, CloseEndpoint
        <3> QED
            BY <1>2, <2>1, <3>1, <3>2 DEF ConnInv, CloseEndpoint
    <2>2. CASE Connections # {}
        BY <1>2, <2>2, NetStep
    <2> QED
        BY <2>1, <2>2
<1>3. CASE ServeStep
    BY <1>3, ServeConnStep
<1>4. CASE \E c \in Connections : HandlerStep(c)
    BY <1>4, HandlerConnStep
<1>5. CASE \/ \E q \in Requests : Offer(q) \/ SessionEnds(q)
           \/ UNCHANGED vars
    BY <1>5, RequestConnStep
<1>6. CASE Terminated
    BY <1>6, RequestConnStep DEF Terminated
<1> QED
    BY <1>1, <1>2, <1>3, <1>4, <1>5, <1>6 DEF Next

\* Every attempted connection is in one place, and in none before.
THEOREM ConnInvariant == Spec => []ConnInv
BY ConnInit, ConnStep, PTL DEF Spec

\* For any number of connections, serve neither forgets one nor starts two
\* tasks for it.
THEOREM ConnectionsAccountedCorrect == Spec => []ConnectionsAccounted
<1>1. ConnInv => ConnectionsAccounted
    BY DEF ConnInv, ConnectionsAccounted
<1> QED
    BY <1>1, ConnInvariant, PTL

-----------------------------------------------------------------------------
(* What the tasks have in hand.                                            *)

\* A task has a request in hand while it answers it and at no other time.
HandlingInv ==
    \A c \in Connections : handling[c] # NoOne <=> handlerPc[c] = "answering"

LEMMA HandlerHandling ==
    ASSUME TypeOK, HandlingInv, NEW c \in Connections, HandlerStep(c)
    PROVE  HandlingInv'
<1> USE AcceptAssumption DEF TypeOK, HandlingInv
<1>1. CASE Start(c)
    BY <1>1 DEF Start
<1>2. CASE StartFails(c) \/ NoMoreRequests(c) \/ RejectFails(c)
    BY <1>2 DEF StartFails, NoMoreRequests, RejectFails, Finish
<1>3. CASE TakeRequest(c)
    BY <1>3 DEF TakeRequest
<1>4. CASE AcceptSession(c) \/ AcceptFails(c) \/ Reject(c)
    BY <1>4 DEF AcceptSession, AcceptFails, Reject
<1> QED
    BY <1>1, <1>2, <1>3, <1>4 DEF HandlerStep

LEMMA HandlingStep == ConnInv /\ HandlingInv /\ [Next]_vars => HandlingInv'
<1> SUFFICES ASSUME ConnInv, HandlingInv, [Next]_vars PROVE HandlingInv'
    OBVIOUS
<1>1. TypeOK
    BY DEF ConnInv
<1>2. CASE \E c \in Connections : HandlerStep(c)
    BY <1>1, <1>2, HandlerHandling
<1>3. CASE HandshakeDone
    <2>1. current \in Connections /\ handlerPc[current] = "none"
        BY <1>3, AcceptAssumption DEF ConnInv, TypeOK, HandshakeDone
    <2> QED
        BY <1>1, <1>3, <2>1 DEF TypeOK, HandlingInv, HandshakeDone
<1>4. CASE \/ \E c \in Connections :
                Attempt(c) \/ Establish(c) \/ Leave(c) \/ Lose(c)
           \/ CloseEndpoint
           \/ TakeIncoming \/ HandshakeFailed \/ ServeReturns
           \/ \E q \in Requests : Offer(q) \/ SessionEnds(q)
           \/ UNCHANGED vars \/ Terminated
    <2> UNCHANGED handlerVars
        BY <1>4 DEF Attempt, Establish, Leave, Lose, CloseEndpoint,
            TakeIncoming, HandshakeFailed, ServeReturns, Offer, SessionEnds,
            Terminated
    <2> QED
        BY DEF HandlingInv
<1> QED
    BY <1>2, <1>3, <1>4 DEF Next, ServeStep

\* Between its requests a task has none in hand.
THEOREM HandlingInvariant == Spec => []HandlingInv
<1>1. Init => HandlingInv
    BY DEF Init, HandlingInv
<1>2. ConnInv /\ HandlingInv /\ [Next]_vars => HandlingInv'
    BY HandlingStep
<1> QED
    BY <1>1, <1>2, ConnInvariant, PTL DEF Spec

\* For any number of connections and requests, the server gives up a
\* connection for the causes named only.
THEOREM ConnectionKeptCorrect == Spec => ConnectionKept
<1>1. ASSUME ConnInv, HandlingInv, Next, NEW c \in Connections,
             conn[c] = "established", conn'[c] = "lost"
      PROVE  \/ Lose(c) \/ CloseEndpoint
             \/ StartFails(c)
             \/ handling[c] # NoOne /\ handling[c] \notin RpcRequests
    <2>1. TypeOK
        BY <1>1 DEF ConnInv
    <2>2. CASE \E d \in Connections :
                  Attempt(d) \/ Establish(d) \/ Leave(d) \/ Lose(d)
        BY <1>1, <2>1, <2>2 DEF TypeOK, Attempt, Establish, Leave, Lose
    <2>3. CASE \E d \in Connections : HandlerStep(d)
        <3> PICK d \in Connections : HandlerStep(d)
            BY <2>3
        <3>1. d = c
            BY <1>1, <2>1, HandlerEffect
        <3>2. ~ (Start(c) \/ TakeRequest(c) \/ NoMoreRequests(c)
                    \/ AcceptSession(c) \/ AcceptFails(c))
            BY <1>1 DEF Start, TakeRequest, NoMoreRequests, AcceptSession,
                AcceptFails
        <3>3. StartFails(c) \/ Reject(c) \/ RejectFails(c)
            BY <3>1, <3>2 DEF HandlerStep
        <3> QED
            BY <1>1, <3>3 DEF HandlingInv, Reject, RejectFails
    <2>4. CASE \E q \in Requests : Offer(q) \/ SessionEnds(q)
        BY <1>1, <2>4 DEF Offer, SessionEnds
    <2>5. CASE ServeStep \/ Terminated
        BY <1>1, <2>5 DEF ServeStep, TakeIncoming, HandshakeDone,
            HandshakeFailed, ServeReturns, Terminated
    <2> QED
        BY <1>1, <2>2, <2>3, <2>4, <2>5 DEF Next
<1>2. ConnInv /\ HandlingInv /\ [Next]_vars =>
        [\A c \in Connections :
            conn[c] = "established" /\ conn'[c] = "lost" =>
                \/ Lose(c) \/ CloseEndpoint
                \/ StartFails(c)
                \/ handling[c] # NoOne /\ handling[c] \notin RpcRequests]_vars
    BY <1>1
<1> QED
    BY <1>2, ConnInvariant, HandlingInvariant, PTL DEF Spec, ConnectionKept

=============================================================================
