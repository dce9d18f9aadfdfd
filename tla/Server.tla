------------------------------- MODULE Server -------------------------------
(***************************************************************************)
(* The RPC server of src/src/server.rs once its sessions exist: the loop   *)
(* of handle_session, one task per session, and register_service, which    *)
(* the tasks of the embedding program call on the same server.             *)
(*                                                                         *)
(* The tasks share the service registry behind a tokio RwLock.  The lock   *)
(* serves its waiters in the order of arrival, so a waiting writer makes   *)
(* the readers that come after it wait too.  register_service has no await *)
(* while it holds the lock; a session keeps its read guard over the await  *)
(* of a send when the service it looked for does not exist.                *)
(*                                                                         *)
(* A registration may come while sessions run: Server is shared that way   *)
(* by the Node binding (an Arc<Server>, one thread of which serves).       *)
(***************************************************************************)
EXTENDS Naturals, Sequences, FiniteSets

CONSTANTS
    Names,       \* names of services
    Registrars,  \* invocations of register_service, and the services they bring
    NameOf,      \* the name each of them registers
    Sessions,    \* the accepted WebTransport sessions, a client behind each
    Readers,     \* those whose client keeps reading its responses
    MaxRequests, \* bound: the requests each client sends at most
    Window,      \* responses that flow control admits unread
    Malformed,   \* a method without a dot
    Garbage,     \* a frame that crate::deserialize rejects
    NoOne        \* None

ASSUME ServerAssumption ==
    /\ NameOf \in [Registrars -> Names]
    /\ Readers \subseteq Sessions
    /\ Registrars \cap Sessions = {}
    /\ MaxRequests \in [Sessions -> Nat]
    /\ Window \in Nat \ {0}
    /\ {Malformed, Garbage} \cap Names = {} /\ Malformed # Garbage
    /\ NoOne \notin Registrars

VARIABLES
    services,   \* Server.services: name -> the registration it holds
    readers,    \* the sessions that hold a read guard of it
    lockQueue,  \* who waits for the lock, in the order of arrival
    registerPc,
    sessionPc,
    sent,       \* the methods of the requests each client has sent
    taken,      \* how many of them the session has received
    service,    \* the Arc of the service the session has looked up
    response,   \* the tag of the response the session is sending
    replies,    \* the responses it has sent
    read,       \* how many of them the client has read
    stream,     \* the bidirectional stream of the session
    order,      \* history: the registrations in the order they took effect
    floor       \* history: those in effect when the request was received

registryVars == <<services, readers, lockQueue, registerPc, order>>
sessionVars  == <<sessionPc, taken, service, response, replies, floor>>
clientVars   == <<sent, read, stream>>
vars == <<registryVars, sessionVars, clientVars>>

Tags    == {"ok", "error", "timeout", "invalid", "not_found"}
Methods == Names \cup {Malformed, Garbage}

Init ==
    /\ services = [n \in Names |-> NoOne]
    /\ readers = {}
    /\ lockQueue = <<>>
    /\ registerPc = [r \in Registrars |-> "idle"]
    /\ sessionPc = [s \in Sessions |-> "accepting"]
    /\ sent = [s \in Sessions |-> <<>>]
    /\ taken = [s \in Sessions |-> 0]
    /\ service = [s \in Sessions |-> NoOne]
    /\ response = [s \in Sessions |-> "none"]
    /\ replies = [s \in Sessions |-> <<>>]
    /\ read = [s \in Sessions |-> 0]
    /\ stream = [s \in Sessions |-> "none"]
    /\ order = <<>>
    /\ floor = [s \in Sessions |-> 0]

-----------------------------------------------------------------------------
(* The clients and the transport.                                          *)

\* open_bi, and the first bytes that let accept_bi see the stream.
OpenStream(s) ==
    /\ stream[s] = "none"
    /\ stream' = [stream EXCEPT ![s] = "open"]
    /\ UNCHANGED <<registryVars, sessionVars, sent, read>>

Send(s) ==
    /\ stream[s] = "open"
    /\ Len(sent[s]) < MaxRequests[s]
    /\ \E m \in Methods : sent' = [sent EXCEPT ![s] = Append(@, m)]
    /\ UNCHANGED <<registryVars, sessionVars, read, stream>>

\* A response that the client's codec has read before its stream broke is
\* still decoded.
Read(s) ==
    /\ stream[s] \in {"open", "broken"}
    /\ read[s] < Len(replies[s])
    /\ read' = [read EXCEPT ![s] = @ + 1]
    /\ UNCHANGED <<registryVars, sessionVars, sent, stream>>

\* The client drops its end: what it has sent arrives, nothing is read.
Finish(s) ==
    /\ stream[s] = "open"
    /\ stream' = [stream EXCEPT ![s] = "finished"]
    /\ UNCHANGED <<registryVars, sessionVars, sent, read>>

\* The session or its connection is lost, and with it any others that came
\* from the same endpoint.
Break(s) ==
    /\ stream[s] # "broken"
    /\ \E Lost \in SUBSET Sessions :
        /\ s \in Lost
        /\ stream' = [t \in Sessions |->
                        IF t \in Lost THEN "broken" ELSE stream[t]]
    /\ UNCHANGED <<registryVars, sessionVars, sent, read>>

ClientStep(s) ==
    OpenStream(s) \/ Send(s) \/ Read(s) \/ Finish(s) \/ Break(s)

-----------------------------------------------------------------------------
(* Server::register_service.                                               *)

\* Mutant of RequestWrite: try_write, and its failure is ignored.
RequestWriteTry(r) ==
    /\ registerPc[r] = "idle"
    /\ registerPc' = [registerPc EXCEPT ![r] = "queued"]
    /\ lockQueue' = IF readers = {} /\ lockQueue = <<>> THEN <<r>>
                    ELSE lockQueue
    /\ UNCHANGED <<services, readers, order, sessionVars, clientVars>>

RequestWrite(r) ==
    /\ registerPc[r] = "idle"
    /\ registerPc' = [registerPc EXCEPT ![r] = "queued"]
    /\ lockQueue' = Append(lockQueue, r)
    /\ UNCHANGED <<services, readers, order, sessionVars, clientVars>>

\* HashMap::insert replaces the service that has the name; a session that
\* has cloned the Arc of the replaced one goes on using it.
Insert(r) ==
    /\ lockQueue # <<>> /\ Head(lockQueue) = r
    /\ readers = {}
    /\ lockQueue' = Tail(lockQueue)
    /\ services' = [services EXCEPT ![NameOf[r]] = r]
    /\ order' = Append(order, r)
    /\ registerPc' = [registerPc EXCEPT ![r] = "registered"]
    /\ UNCHANGED <<readers, sessionVars, clientVars>>

RegisterStep(r) == RequestWrite(r) \/ Insert(r)

-----------------------------------------------------------------------------
(* handle_session.                                                         *)

AcceptStream(s) ==
    /\ sessionPc[s] = "accepting"
    /\ stream[s] \in {"open", "finished"}
    /\ sessionPc' = [sessionPc EXCEPT ![s] = "receiving"]
    /\ UNCHANGED <<registryVars, taken, service, response, replies, floor,
                   clientVars>>

\* Mutant of End: the lock is not released by the task that returns.
EndWithGuard(s) ==
    /\ sessionPc' = [sessionPc EXCEPT ![s] = "ended"]
    /\ service' = [service EXCEPT ![s] = NoOne]
    /\ response' = [response EXCEPT ![s] = "none"]
    /\ UNCHANGED <<registryVars, taken, replies, floor, clientVars>>

\* The task returns: the stream, and a guard it may hold, are dropped.
End(s) ==
    /\ sessionPc' = [sessionPc EXCEPT ![s] = "ended"]
    /\ readers' = readers \ {s}
    /\ service' = [service EXCEPT ![s] = NoOne]
    /\ response' = [response EXCEPT ![s] = "none"]
    /\ UNCHANGED <<services, lockQueue, registerPc, order, taken, replies,
                   floor, clientVars>>

AcceptFail(s) ==
    /\ sessionPc[s] = "accepting"
    /\ stream[s] = "broken"
    /\ End(s)

\* receive() gave None or an error.
EndOfStream(s) ==
    /\ sessionPc[s] = "receiving"
    /\ \/ stream[s] = "broken"
       \/ stream[s] = "finished" /\ taken[s] = Len(sent[s])
    /\ End(s)

Incoming(s) == sent[s][taken[s] + 1]

Receivable(s) ==
    /\ sessionPc[s] = "receiving"
    /\ stream[s] # "broken"
    /\ taken[s] < Len(sent[s])

Take(s) ==
    /\ taken' = [taken EXCEPT ![s] = @ + 1]
    /\ floor' = [floor EXCEPT ![s] = Len(order)]

\* deserialize(...)? returns from the task.
ReceiveGarbage(s) ==
    /\ Receivable(s)
    /\ Incoming(s) = Garbage
    /\ sessionPc' = [sessionPc EXCEPT ![s] = "ended"]
    /\ Take(s)
    /\ UNCHANGED <<registryVars, service, response, replies, clientVars>>

\* Mutants of ReceiveMalformed: the response is not built, and every
\* method is taken for a malformed one.
ReceiveMalformedSilent(s) ==
    /\ Receivable(s)
    /\ Incoming(s) = Malformed
    /\ Take(s)
    /\ sessionPc' = [sessionPc EXCEPT ![s] = "sending"]
    /\ UNCHANGED <<registryVars, service, response, replies, clientVars>>

ReceiveAnyMalformed(s) ==
    /\ Receivable(s)
    /\ Incoming(s) # Garbage
    /\ Take(s)
    /\ sessionPc' = [sessionPc EXCEPT ![s] = "sending"]
    /\ response' = [response EXCEPT ![s] = "invalid"]
    /\ UNCHANGED <<registryVars, service, replies, clientVars>>

ReceiveMalformed(s) ==
    /\ Receivable(s)
    /\ Incoming(s) = Malformed
    /\ Take(s)
    /\ sessionPc' = [sessionPc EXCEPT ![s] = "sending"]
    /\ response' = [response EXCEPT ![s] = "invalid"]
    /\ UNCHANGED <<registryVars, service, replies, clientVars>>

\* services.read().await
Receive(s) ==
    /\ Receivable(s)
    /\ Incoming(s) \in Names
    /\ Take(s)
    /\ sessionPc' = [sessionPc EXCEPT ![s] = "queued"]
    /\ lockQueue' = Append(lockQueue, s)
    /\ UNCHANGED <<services, readers, registerPc, order, service, response,
                   replies, clientVars>>

Wanted(s) == sent[s][taken[s]]

\* The read guard is granted, the Arc cloned and the guard dropped.
Found(s) ==
    /\ lockQueue # <<>> /\ Head(lockQueue) = s
    /\ services[Wanted(s)] # NoOne
    /\ lockQueue' = Tail(lockQueue)
    /\ service' = [service EXCEPT ![s] = services[Wanted(s)]]
    /\ sessionPc' = [sessionPc EXCEPT ![s] = "calling"]
    /\ UNCHANGED <<services, readers, registerPc, order, taken, response,
                   replies, floor, clientVars>>

\* Mutants of NotFound: try_read, which fails while others wait for the
\* lock, taken for a service that is missing; and continue without a response.
NotFoundUnlessFree(s) ==
    /\ lockQueue # <<>> /\ Head(lockQueue) = s
    /\ services[Wanted(s)] = NoOne \/ Len(lockQueue) > 1
    /\ lockQueue' = Tail(lockQueue)
    /\ readers' = readers \cup {s}
    /\ response' = [response EXCEPT ![s] = "not_found"]
    /\ sessionPc' = [sessionPc EXCEPT ![s] = "sending"]
    /\ UNCHANGED <<services, registerPc, order, taken, service, replies,
                   floor, clientVars>>

NotFoundSilent(s) ==
    /\ lockQueue # <<>> /\ Head(lockQueue) = s
    /\ services[Wanted(s)] = NoOne
    /\ lockQueue' = Tail(lockQueue)
    /\ sessionPc' = [sessionPc EXCEPT ![s] = "receiving"]
    /\ UNCHANGED <<services, readers, registerPc, order, taken, service,
                   response, replies, floor, clientVars>>

\* The guard outlives the send of the error response.
NotFound(s) ==
    /\ lockQueue # <<>> /\ Head(lockQueue) = s
    /\ services[Wanted(s)] = NoOne
    /\ lockQueue' = Tail(lockQueue)
    /\ readers' = readers \cup {s}
    /\ response' = [response EXCEPT ![s] = "not_found"]
    /\ sessionPc' = [sessionPc EXCEPT ![s] = "sending"]
    /\ UNCHANGED <<services, registerPc, order, taken, service, replies,
                   floor, clientVars>>

\* Mutant of CallDone: the service is called without tokio::time::timeout.
CallHangs(s) == FALSE

\* The service answers, fails, or exceeds config.timeout_ms and is dropped.
CallDone(s) ==
    /\ sessionPc[s] = "calling"
    /\ \E tag \in {"ok", "error", "timeout"} :
        response' = [response EXCEPT ![s] = tag]
    /\ service' = [service EXCEPT ![s] = NoOne]
    /\ sessionPc' = [sessionPc EXCEPT ![s] = "sending"]
    /\ UNCHANGED <<registryVars, taken, replies, floor, clientVars>>

\* A panic of the service unwinds the session's task.
CallPanics(s) ==
    /\ sessionPc[s] = "calling"
    /\ End(s)

\* The response is written; a read guard still held is dropped.
Reply(s) ==
    /\ sessionPc[s] = "sending"
    /\ stream[s] # "broken"
    /\ Len(replies[s]) - read[s] < Window
    /\ replies' = [replies EXCEPT
            ![s] = Append(@, [id |-> taken[s], tag |-> response[s]])]
    /\ response' = [response EXCEPT ![s] = "none"]
    /\ readers' = readers \ {s}
    /\ sessionPc' = [sessionPc EXCEPT ![s] = "receiving"]
    /\ UNCHANGED <<services, lockQueue, registerPc, order, taken, service,
                   floor, clientVars>>

ReplyFails(s) ==
    /\ sessionPc[s] = "sending"
    /\ stream[s] # "open"
    /\ End(s)

\* The response is longer than the codec allows: send returns an error
\* before a byte of it is written.
ReplyTooLong(s) ==
    /\ sessionPc[s] = "sending"
    /\ End(s)

SessionProgress(s) ==
    \/ AcceptStream(s)
    \/ AcceptFail(s)
    \/ EndOfStream(s)
    \/ ReceiveGarbage(s)
    \/ ReceiveMalformed(s)
    \/ Receive(s)
    \/ Found(s)
    \/ NotFound(s)
    \/ CallDone(s)
    \/ Reply(s)
    \/ ReplyFails(s)

SessionStep(s) == SessionProgress(s) \/ CallPanics(s) \/ ReplyTooLong(s)

-----------------------------------------------------------------------------

\* Every session has ended; the server waits for the next one.
Quiescent ==
    /\ \A s \in Sessions : sessionPc[s] = "ended"
    /\ UNCHANGED vars

Next ==
    \/ \E s \in Sessions : ClientStep(s) \/ SessionStep(s)
    \/ \E r \in Registrars : RegisterStep(r)
    \/ Quiescent

Spec == Init /\ [][Next]_vars

\* The runtime polls every task that can go on, the timer of a service call
\* fires, and the lock is granted in the order of its queue.  No service has
\* to panic, and no response to be too long.  A client need not send, nor,
\* outside Readers, read what it is sent.
FairSpec ==
    /\ Spec
    /\ \A s \in Sessions : WF_vars(SessionProgress(s))
    /\ \A r \in Registrars : WF_vars(Insert(r))
    /\ \A s \in Readers : WF_vars(stream[s] = "open" /\ Read(s))

-----------------------------------------------------------------------------
(* Properties.                                                             *)

Response == [id : Nat, tag : Tags]

TypeOK ==
    /\ services \in [Names -> Registrars \cup {NoOne}]
    /\ readers \subseteq Sessions
    /\ lockQueue \in Seq(Registrars \cup Sessions)
    /\ registerPc \in [Registrars -> {"idle", "queued", "registered"}]
    /\ sessionPc \in [Sessions -> {"accepting", "receiving", "queued",
                                   "calling", "sending", "ended"}]
    /\ sent \in [Sessions -> Seq(Methods)]
    /\ taken \in [Sessions -> Nat]
    /\ service \in [Sessions -> Registrars \cup {NoOne}]
    /\ response \in [Sessions -> Tags \cup {"none"}]
    /\ replies \in [Sessions -> Seq(Response)]
    /\ read \in [Sessions -> Nat]
    /\ stream \in [Sessions -> {"none", "open", "finished", "broken"}]
    /\ order \in Seq(Registrars)
    /\ floor \in [Sessions -> Nat]

\* Requests of one session are answered one at a time, in the order they
\* were sent and each exactly once: the k-th response carries the id of the
\* k-th request, and at most the request in hand is unanswered.
RepliesInOrder ==
    \A s \in Sessions :
        /\ \A k \in 1 .. Len(replies[s]) : replies[s][k].id = k
        /\ sessionPc[s] = "receiving" => Len(replies[s]) = taken[s]
        /\ sessionPc[s] \in {"queued", "calling", "sending"}
              => Len(replies[s]) + 1 = taken[s]

\* The lock is only ever held to report a service that is missing, and only
\* by a session whose task is alive: a session that ends, on whatever path,
\* blocks no registration, and neither does one that runs a service.
GuardsAreLive ==
    \A s \in Sessions :
        /\ s \in readers <=>
               sessionPc[s] = "sending" /\ response[s] = "not_found"
        /\ (\E i \in 1 .. Len(lockQueue) : lockQueue[i] = s)
               <=> sessionPc[s] = "queued"

\* The registry is linearizable although sessions queue for it: a request
\* received after a registration of its name took effect is not reported as
\* missing, nor served by a registration which that one had replaced.
RequestSeesRegistration ==
    \A s \in Sessions : \A i \in 1 .. floor[s] :
        taken[s] > 0 /\ NameOf[order[i]] = Wanted(s) =>
            /\ response[s] # "not_found"
            /\ sessionPc[s] = "calling" =>
                  \E j \in i .. Len(order) : order[j] = service[s]

\* The server does what RpcService promises: the lock, its queue and the
\* flow control of the replies change neither what is answered nor in which
\* order.  The registry is consulted at the instant of Found or NotFound.
KindOf(s) ==
    CASE sessionPc[s] = "calling" -> "found"
      [] sessionPc[s] = "sending" ->
            IF response[s] = "invalid" THEN "malformed"
            ELSE IF response[s] = "not_found" THEN "missing" ELSE "found"
      [] OTHER -> "none"

Promise == INSTANCE RpcService WITH
    registered <- {n \in Names : services[n] # NoOne},
    current    <- [s \in Sessions |-> KindOf(s)],
    over       <- {s \in Sessions : sessionPc[s] = "ended"}

ImplementsPromise == Promise!Spec

\* A registration does not wait for ever for the sessions' read guards, as
\* long as the clients read their responses or go away.
RegisterCompletes ==
    \A r \in Registrars :
        registerPc[r] = "queued" ~> registerPc[r] = "registered"

\* Every request that a session has received is answered, or the session
\* ends: no session waits for ever for the registry or for a service.
RequestAnswered ==
    \A s \in Sessions :
        sessionPc[s] \in {"queued", "calling", "sending"}
            ~> sessionPc[s] \in {"receiving", "ended"}

\* "Designed with Tokio to allow async processing for scalable,
\* non-blocking operations" (README.md): a client that reads and keeps its
\* stream open would be answered even when another client does not read.
ReaderIsAnswered ==
    \A s \in Readers :
        sessionPc[s] = "queued" ~>
            sessionPc[s] \in {"receiving", "ended"} \/ stream[s] # "open"

=============================================================================
