---------------------------- MODULE NodeBinding ----------------------------
(***************************************************************************)
(* The Node.js binding of src/src/bindings/node.rs: the JavaScript thread  *)
(* that creates one client and one server and calls their methods, and the *)
(* threads that execute the methods and settle their promises.             *)
(*                                                                         *)
(* createClient and createServer run on a runtime that they drop when they *)
(* return, and with it the driver of the endpoint they made; each method   *)
(* has a thread and a runtime of its own.                                  *)
(***************************************************************************)
EXTENDS Config

CONSTANTS
    Promises,   \* promises of the methods that are called
    NodeNames,  \* names of services
    JsOptions   \* options of createClient and createServer

ASSUME NodeAssumption ==
    JsOptions \subseteq
        [addr : Addresses, format : Formats, cert : Files, key : Files,
         ca : {"unset", "absent", "pem", "der"}, streams : Nat, idle : Nat]

VARIABLES
    js,          \* what the JavaScript thread is in: "script", or the object
                 \* that it creates
    driver,      \* the driver of the endpoint of each object
    method,      \* the method that made each promise
    promise,     \* what has become of it
    jsServices,  \* JsServer.services
    nodeServices \* Server.services below it

nodeVars == <<js, driver, method, promise, jsServices, nodeServices>>

Objects == {"client", "server"}
MethodsOf == [client |-> {"connect", "call", "close"}, server |-> {"serve"}]
Settled == {"resolved", "rejected"}

NodeInit ==
    /\ js = "script"
    /\ driver = [k \in Objects |-> "none"]
    /\ method = [f \in Promises |-> "none"]
    /\ promise = [f \in Promises |-> "none"]
    /\ jsServices = {}
    /\ nodeServices = {}

-----------------------------------------------------------------------------
(* The JavaScript thread.                                                  *)

\* js_config_to_config and the configuration that quinn takes.
js_config_to_config(k, o) ==
    LET config == [o EXCEPT !.idle = JsNumber(@), !.streams = JsNumber(@)]
    IN  /\ Parses(o.addr) /\ JsFormat(o.format)
        /\ IF k = "client" THEN build_client_config(config) = "ok"
                           ELSE build_server_config(config) = "ok"

\* createClient or createServer begins.  An error or a panic is thrown to
\* the script, and no object is returned.
Create(k) ==
    /\ js = "script"
    /\ driver[k] = "none"
    /\ \E o \in JsOptions :
        IF js_config_to_config(k, o)
        THEN /\ js' = k
             /\ driver' = [driver EXCEPT ![k] = "running"]
        ELSE UNCHANGED <<js, driver>>
    /\ UNCHANGED <<method, promise, jsServices, nodeServices>>

\* Client::new or Server::new fails to bind the socket.
CreateThrows(k) ==
    /\ js = k
    /\ js' = "script"
    /\ driver' = [driver EXCEPT ![k] = "none"]
    /\ UNCHANGED <<method, promise, jsServices, nodeServices>>

\* The object is returned, and the runtime dropped with the driver.
CreateReturns(k) ==
    /\ js = k
    /\ js' = "script"
    /\ driver' = [driver EXCEPT ![k] = "lost"]
    /\ UNCHANGED <<method, promise, jsServices, nodeServices>>

\* A method makes its promise, and a runtime and a thread to work on it.
CallMethod(f) ==
    /\ js = "script"
    /\ promise[f] = "none"
    /\ \E k \in Objects : \E name \in MethodsOf[k] :
        /\ driver[k] = "lost"
        /\ method' = [method EXCEPT ![f] = name]
    /\ promise' = [promise EXCEPT ![f] = "pending"]
    /\ UNCHANGED <<js, driver, jsServices, nodeServices>>

\* registerService blocks the thread on the lock of the registry, which is
\* free as long as no session runs.
RegisterService ==
    /\ js = "script"
    /\ driver["server"] = "lost"
    /\ \E n \in NodeNames :
        /\ nodeServices' = nodeServices \cup {n}
        /\ jsServices' = jsServices \cup {n}
    /\ UNCHANGED <<js, driver, method, promise>>

\* The event loop settles a promise when the script lets it.
Settle(f) ==
    /\ js = "script"
    /\ promise[f] \in {"to resolve", "to reject"}
    /\ promise' = [promise EXCEPT
            ![f] = IF @ = "to resolve" THEN "resolved" ELSE "rejected"]
    /\ UNCHANGED <<js, driver, method, jsServices, nodeServices>>

-----------------------------------------------------------------------------
(* The threads.                                                            *)

Answers(f, name, outcome) ==
    /\ promise[f] = "pending" /\ method[f] = name
    /\ promise' = [promise EXCEPT ![f] = outcome]
    /\ UNCHANGED <<js, driver, method, jsServices, nodeServices>>

\* Mutant of ConnectEnds: the attempt waits for the driver.
ConnectWaits(f) ==
    driver["client"] = "running" /\ Answers(f, "connect", "to resolve")

\* quinn refuses to connect on an endpoint whose driver is lost.
ConnectEnds(f) ==
    driver["client"] = "lost" /\ Answers(f, "connect", "to reject")

\* There is no stream to call on.
CallEnds(f) == Answers(f, "call", "to reject")

\* There is nothing to close.
CloseEnds(f) == Answers(f, "close", "to resolve")

\* accept returns None when the driver is lost, and serve Ok.
ServeReturns(f) ==
    driver["server"] = "lost" /\ Answers(f, "serve", "to resolve")

\* The thread has no runtime.
ServeThrows(f) == Answers(f, "serve", "to reject")

MethodEnds(f) ==
    \/ ConnectEnds(f) \/ CallEnds(f) \/ CloseEnds(f)
    \/ ServeReturns(f) \/ ServeThrows(f)

NodeNext ==
    \/ \E k \in Objects : Create(k) \/ CreateThrows(k) \/ CreateReturns(k)
    \/ RegisterService
    \/ \E f \in Promises : CallMethod(f) \/ MethodEnds(f) \/ Settle(f)

\* The threads run, creating an object comes to an end, and the script
\* returns to the event loop again and again.
NodeFairness ==
    /\ \A k \in Objects : WF_nodeVars(CreateThrows(k) \/ CreateReturns(k))
    /\ \A f \in Promises : WF_nodeVars(MethodEnds(f)) /\ SF_nodeVars(Settle(f))

-----------------------------------------------------------------------------
(* Properties.                                                             *)

\* Every promise is settled, although no endpoint has a driver and the
\* JavaScript thread may be blocked when the answer is there.
PromisesSettle ==
    \A f \in Promises : promise[f] = "pending" ~> promise[f] \in Settled

=============================================================================
