------------------------------ MODULE PyServer ------------------------------
(***************************************************************************)
(* PyClient, PyServer and PythonServiceBridge of                           *)
(* src/src/bindings/python.rs: Python threads that register services,      *)
(* serve and call, the tokio workers that call the services, and the GIL   *)
(* between them.                                                           *)
(*                                                                         *)
(* A call to a Python service blocks its worker: it waits for the GIL and  *)
(* runs the service within one poll, so that no timer can end it.          *)
(***************************************************************************)
EXTENDS Naturals, FiniteSets

CONSTANTS
    Threads,       \* Python threads that use one PyServer
    Names,         \* names of services
    Requests,      \* requests of the clients
    NameOf,        \* the service that each asks for
    Workers,       \* number of worker threads of the runtime
    NoOne          \* the GIL is free, the PyServer not borrowed, no call

ASSUME PyServerAssumption ==
    /\ NameOf \in [Requests -> Names]
    /\ Workers \in Nat \ {0}
    /\ NoOne \notin Threads \cup Requests

VARIABLES
    gil,      \* the Python thread that holds the GIL
    borrowed, \* the one whose method call borrows the PyServer mutably
    pc,       \* where each Python thread is
    services, \* PyServer.services
    served,   \* the services that serve registers with the server it starts
    endpoint, \* the endpoint of the latest server
    request,  \* where each request is
    asking    \* the request whose response a thread waits for in PyClient::call

serverVars == <<services, served, endpoint>>
vars == <<gil, borrowed, pc, serverVars, request, asking>>

Init ==
    /\ gil = NoOne
    /\ borrowed = NoOne
    /\ pc = [t \in Threads |-> "outside"]
    /\ services = {}
    /\ served = {}
    /\ endpoint = "none"
    /\ request = [q \in Requests |-> "none"]
    /\ asking = [t \in Threads |-> NoOne]

-----------------------------------------------------------------------------
(* The Python interpreter.                                                 *)

TakeGil(t) ==
    /\ pc[t] = "outside"
    /\ gil = NoOne
    /\ gil' = t
    /\ pc' = [pc EXCEPT ![t] = "script"]
    /\ UNCHANGED <<borrowed, serverVars, request, asking>>

\* The interpreter switches threads; the script waits for something.
YieldGil(t) ==
    /\ pc[t] = "script"
    /\ gil' = NoOne
    /\ pc' = [pc EXCEPT ![t] = "outside"]
    /\ UNCHANGED <<borrowed, serverVars, request, asking>>

-----------------------------------------------------------------------------
(* The methods of PyServer.  They borrow it mutably: pyo3 raises an        *)
(* exception when another method call still does.                          *)

\* Mutant of Register: the method takes &self and a lock.
RegisterShared(t) ==
    /\ pc[t] = "script"
    /\ \E n \in Names : services' = services \cup {n}
    /\ UNCHANGED <<gil, borrowed, pc, served, endpoint, request, asking>>

Register(t) ==
    /\ pc[t] = "script"
    /\ borrowed = NoOne
    /\ \E n \in Names : services' = services \cup {n}
    /\ UNCHANGED <<gil, borrowed, pc, served, endpoint, request, asking>>

\* The services are copied, and py.allow_threads lets go of the GIL until
\* serve returns.
Serve(t) ==
    /\ pc[t] = "script"
    /\ borrowed = NoOne
    /\ borrowed' = t
    /\ served' = services
    /\ gil' = NoOne
    /\ pc' = [pc EXCEPT ![t] = "starting"]
    /\ UNCHANGED <<services, endpoint, request, asking>>

\* Server::new, and the registration of the copied services.
Start(t) ==
    /\ pc[t] = "starting"
    /\ endpoint' = "open"
    /\ pc' = [pc EXCEPT ![t] = "serving"]
    /\ UNCHANGED <<gil, borrowed, services, served, request, asking>>

StartFails(t) ==
    /\ pc[t] = "starting"
    /\ pc' = [pc EXCEPT ![t] = "returning"]
    /\ UNCHANGED <<gil, borrowed, serverVars, request, asking>>

\* Mutant of ServeEnds: serve goes on when the endpoint is closed.
ServeGoesOn(t) ==
    /\ pc[t] = "serving"
    /\ endpoint = "closed"
    /\ UNCHANGED vars

\* Server::serve returns.
ServeEnds(t) ==
    /\ pc[t] = "serving"
    /\ endpoint = "closed"
    /\ pc' = [pc EXCEPT ![t] = "returning"]
    /\ UNCHANGED <<gil, borrowed, serverVars, request, asking>>

\* allow_threads takes the GIL back, unless the thread has kept it.
Return(t) ==
    /\ pc[t] = "returning"
    /\ gil \in {NoOne, t}
    /\ gil' = t
    /\ borrowed' = IF borrowed = t THEN NoOne ELSE borrowed
    /\ pc' = [pc EXCEPT ![t] = "script"]
    /\ UNCHANGED <<serverVars, request, asking>>

\* The calling thread keeps the GIL.
ServeInBackground(t) ==
    /\ pc[t] = "script"
    /\ borrowed = NoOne
    /\ borrowed' = t
    /\ served' = services
    /\ pc' = [pc EXCEPT ![t] = "launching"]
    /\ UNCHANGED <<gil, services, endpoint, request, asking>>

\* The server runs in a thread of its own, which this one joins.
Launch(t) ==
    /\ pc[t] = "launching"
    /\ endpoint' = "open"
    /\ pc' = [pc EXCEPT ![t] = "joining"]
    /\ UNCHANGED <<gil, borrowed, services, served, request, asking>>

LaunchFails(t) ==
    /\ pc[t] = "launching"
    /\ borrowed' = NoOne
    /\ pc' = [pc EXCEPT ![t] = "script"]
    /\ UNCHANGED <<gil, serverVars, request, asking>>

Join(t) ==
    /\ pc[t] = "joining"
    /\ endpoint = "closed"
    /\ borrowed' = NoOne
    /\ pc' = [pc EXCEPT ![t] = "script"]
    /\ UNCHANGED <<gil, serverVars, request, asking>>

ServeStep(t) == Start(t) \/ StartFails(t) \/ ServeEnds(t)
LaunchStep(t) == Launch(t) \/ LaunchFails(t) \/ Join(t)

-----------------------------------------------------------------------------
(* The methods of PyClient.  They borrow it immutably, and wait without    *)
(* the GIL on a runtime of the client's own.                               *)

\* connect and close.
Block(t) ==
    /\ pc[t] = "script"
    /\ gil' = NoOne
    /\ pc' = [pc EXCEPT ![t] = "blocked"]
    /\ UNCHANGED <<borrowed, serverVars, request, asking>>

Unblock(t) ==
    /\ pc[t] = "blocked"
    /\ pc' = [pc EXCEPT ![t] = "returning"]
    /\ UNCHANGED <<gil, borrowed, serverVars, request, asking>>

Asks(t, q) ==
    /\ pc[t] = "script"
    /\ endpoint = "open"
    /\ request[q] = "none"
    /\ request' = [request EXCEPT ![q] = "sent"]
    /\ asking' = [asking EXCEPT ![t] = q]
    /\ pc' = [pc EXCEPT ![t] = "calling"]
    /\ UNCHANGED <<borrowed, serverVars>>

\* Mutant of Call: it waits for the response with the GIL.
CallWithGil(t) == \E q \in Requests : Asks(t, q) /\ UNCHANGED gil

\* call, when the arguments have been converted.  Without a connection it
\* fails, like connect and close may, in Block and Unblock.
Call(t) == \E q \in Requests : Asks(t, q) /\ gil' = NoOne

CallEnds(t) ==
    /\ asking' = [asking EXCEPT ![t] = NoOne]
    /\ pc' = [pc EXCEPT ![t] = "returning"]
    /\ UNCHANGED <<gil, borrowed, serverVars, request>>

CallAnswered(t) ==
    /\ pc[t] = "calling"
    /\ request[asking[t]] = "done"
    /\ CallEnds(t)

CallTimesOut(t) ==
    /\ pc[t] \in {"calling", "cut off"}
    /\ CallEnds(t)

ClientStep(t) ==
    CallAnswered(t) \/ (pc[t] = "cut off" /\ CallTimesOut(t)) \/ Unblock(t)

ThreadStep(t) ==
    \/ TakeGil(t) \/ YieldGil(t)
    \/ Block(t) \/ Call(t) \/ CallAnswered(t) \/ CallTimesOut(t) \/ Unblock(t)
    \/ Register(t)
    \/ Serve(t) \/ ServeStep(t) \/ Return(t)
    \/ ServeInBackground(t) \/ LaunchStep(t)

-----------------------------------------------------------------------------
(* The server's sessions, and PythonServiceBridge::call.                   *)

\* A call that waits for its response is not told: its timeout ends it.
CloseEndpoint ==
    /\ endpoint = "open"
    /\ endpoint' = "closed"
    /\ pc' = [t \in Threads |-> IF pc[t] = "calling" THEN "cut off" ELSE pc[t]]
    /\ UNCHANGED <<gil, borrowed, services, served, request, asking>>

\* A request comes in, from a thread of this process or from another one.
\* The registry of a server does not change after Start or Launch: whether
\* the service exists is decided here.
Arrive(q) ==
    /\ endpoint = "open"
    /\ request[q] \in {"none", "sent"}
    /\ request' = [request EXCEPT
            ![q] = IF NameOf[q] \in served THEN "found" ELSE "missing"]
    /\ UNCHANGED <<gil, borrowed, pc, serverVars, asking>>

\* Mutant of Blocking: a worker that has called a service once waits for the
\* next call to it.
BlockingForGood ==
    {q \in Requests :
        request[q] \in {"acquiring", "running", "leaving", "done"}}

\* The requests whose calls block a worker.
Blocking ==
    {q \in Requests : request[q] \in {"acquiring", "running", "leaving"}}

\* A worker polls the session's task: acquire_gil blocks it.
Poll(q) ==
    /\ request[q] \in {"found", "missing"}
    /\ Cardinality(Blocking) < Workers
    /\ request' = [request EXCEPT
            ![q] = IF @ = "found" THEN "acquiring" ELSE "done"]
    /\ UNCHANGED <<gil, borrowed, pc, serverVars, asking>>

\* The GIL is acquired, and let go again by py.allow_threads, within which
\* the service is called.
Enter(q) ==
    /\ request[q] = "acquiring"
    /\ gil = NoOne
    /\ request' = [request EXCEPT ![q] = "running"]
    /\ UNCHANGED <<gil, borrowed, pc, serverVars, asking>>

\* The Python service returns or raises an exception.
ServiceReturns(q) ==
    /\ request[q] = "running"
    /\ request' = [request EXCEPT ![q] = "leaving"]
    /\ UNCHANGED <<gil, borrowed, pc, serverVars, asking>>

\* The service is entered and runs in a thread that has let go of the GIL,
\* where Python's objects must not be touched.  It may work; it may as well
\* take the process down, with every thread and every session in it.
Crash ==
    /\ \E q \in Requests : request[q] = "running"
    /\ gil' = NoOne
    /\ borrowed' = NoOne
    /\ pc' = [t \in Threads |-> "gone"]
    /\ endpoint' = "closed"
    /\ request' = [q \in Requests |->
           IF request[q] \in {"none", "done"} THEN request[q] ELSE "lost"]
    /\ asking' = [t \in Threads |-> NoOne]
    /\ UNCHANGED <<services, served>>

\* allow_threads takes the GIL back, and its guard is dropped; the session
\* sends the response.
Leave(q) ==
    /\ request[q] = "leaving"
    /\ gil = NoOne
    /\ request' = [request EXCEPT ![q] = "done"]
    /\ UNCHANGED <<gil, borrowed, pc, serverVars, asking>>

RequestStep(q) ==
    Arrive(q) \/ Poll(q) \/ Enter(q) \/ ServiceReturns(q) \/ Leave(q)

\* Nothing is left of the process.
Gone ==
    /\ \A t \in Threads : pc[t] = "gone"
    /\ UNCHANGED vars

-----------------------------------------------------------------------------

Next ==
    \/ \E t \in Threads : ThreadStep(t)
    \/ \E q \in Requests : RequestStep(q)
    \/ CloseEndpoint
    \/ Crash
    \/ Gone

Spec == Init /\ [][Next]_vars

\* The interpreter switches threads and hands the GIL to everyone who waits
\* for it in the end; the runtime polls every task, a request that was sent
\* comes in, and a Python service returns, or the process is gone.  No
\* endpoint has to close, no call has to time out while it is connected, and
\* no script has to call a method.
ThreadProgress(t) ==
    TakeGil(t) \/ Return(t) \/ ServeStep(t) \/ LaunchStep(t) \/ ClientStep(t)
RequestProgress(q) ==
    \/ request[q] = "sent" /\ Arrive(q)
    \/ Poll(q) \/ Enter(q) \/ ServiceReturns(q) \/ Leave(q)

FairSpec ==
    /\ Spec
    /\ \A t \in Threads : SF_vars(YieldGil(t)) /\ SF_vars(ThreadProgress(t))
    /\ \A q \in Requests : SF_vars(RequestProgress(q))

-----------------------------------------------------------------------------
(* Properties.                                                             *)

\* A running server has every service that was registered with the PyServer
\* since: serve works on a copy of the map, made before the GIL is let go,
\* and no registration that succeeds can slip in after the copy.
NoServiceMissed == endpoint = "open" => served = services

\* A thread that joins a background server keeps the GIL while it does.
NobodyJoins == \A t \in Threads : pc[t] # "joining"

\* Every request is answered, although its service waits for the GIL with the
\* other Python threads and blocks a worker, which no timeout can end: unless
\* the process crashes, or a thread joins a background server for ever.
RequestAnswered ==
    []<>NobodyJoins =>
        \A q \in Requests :
            request[q] \in {"found", "missing"} ~>
                request[q] \in {"done", "lost"}

\* A call from a Python thread to a Python service comes back to the script,
\* also when the service runs in the same process, and without its timeout
\* as long as it is connected: the caller waits for the response without the
\* GIL, which the service needs.  A crash ends the script, and a thread that
\* joins a background server for ever keeps everyone else from the GIL.
CallComesBack ==
    []<>NobodyJoins =>
        \A t \in Threads : pc[t] = "calling" ~> pc[t] \in {"script", "gone"}

\* serve and serve_in_background give control back to the script once the
\* endpoint has closed, unless the process crashes.
ServeReturns ==
    \A t \in Threads :
        pc[t] \in {"serving", "joining"} /\ endpoint = "closed" ~>
            pc[t] \in {"script", "gone"}

\* What its comment and a test say of serve_in_background: the server runs in
\* the background, and the script goes on.
BackgroundIsNonBlocking ==
    \A t \in Threads : pc[t] = "launching" ~> pc[t] \in {"script", "gone"}

=============================================================================
