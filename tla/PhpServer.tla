----------------------------- MODULE PhpServer -----------------------------
(***************************************************************************)
(* Services written in PHP, of src/src/bindings/php.rs.  A PHP script      *)
(* registers callbacks, each for a method of a service; the tasks of the   *)
(* server look a service up and have it run the callback of a method.      *)
(*                                                                         *)
(* All services of a server are one PhpServiceImpl: methods belongs to     *)
(* that object.  The script registers first a method with the object, then *)
(* the object with the server; calls may come in between.                  *)
(*                                                                         *)
(* The file as it stands calls Server::has_service, which the library does *)
(* not have, and mutates methods through an Arc; the module follows what   *)
(* it says, each step taking effect at once.                               *)
(***************************************************************************)

CONSTANTS
    Services,  \* names of services
    Methods,   \* names of methods
    Callbacks, \* the registrations that the script makes
    ServiceOf, \* the service of each registration, and of each call
    MethodOf,  \* the method of each
    Calls,     \* calls of the clients
    NoOne      \* None

VARIABLES
    services,   \* the names in Server.services; their value is service_impl
    methods,    \* service_impl.methods: name -> the callback of it
    registering,\* the registration between its two steps
    callPc,     \* where each call is
    picked,     \* the callback it has picked
    listed,     \* the answer to the latest list_methods
    made        \* history: the registrations made

vars == <<services, methods, registering, callPc, picked, listed, made>>

Init ==
    /\ services = {}
    /\ methods = [m \in Methods |-> NoOne]
    /\ registering = NoOne
    /\ callPc = [q \in Calls |-> "none"]
    /\ picked = [q \in Calls |-> NoOne]
    /\ listed = [of |-> NoOne, methods |-> {}]
    /\ made = {}

-----------------------------------------------------------------------------
(* The script.                                                             *)

\* Insert the callback under its method, over one that is there.
RegisterMethod(r) ==
    /\ registering = NoOne
    /\ r \notin made
    /\ methods' = [methods EXCEPT ![MethodOf[r]] = r]
    /\ registering' = r
    /\ made' = made \cup {r}
    /\ UNCHANGED <<services, callPc, picked, listed>>

\* The server is given service_impl unless it has the name.
RegisterService(r) ==
    /\ registering = r
    /\ services' = services \cup {ServiceOf[r]}
    /\ registering' = NoOne
    /\ UNCHANGED <<methods, callPc, picked, listed, made>>

ListMethods(s) ==
    /\ registering = NoOne
    /\ listed' = [of |-> s,
                  methods |-> {m \in Methods : methods[m] # NoOne}]
    /\ UNCHANGED <<services, methods, registering, callPc, picked, made>>

-----------------------------------------------------------------------------
(* A session's task.                                                       *)

\* handle_session looks up the service.
Look(q) ==
    /\ callPc[q] = "none"
    /\ callPc' = [callPc EXCEPT
            ![q] = IF ServiceOf[q] \in services THEN "calling" ELSE "not_found"]
    /\ UNCHANGED <<services, methods, registering, picked, listed, made>>

\* PhpServiceImpl::call finds no callback.
MethodNotFound(q) ==
    /\ callPc[q] = "calling"
    /\ methods[MethodOf[q]] = NoOne
    /\ callPc' = [callPc EXCEPT ![q] = "method_not_found"]
    /\ UNCHANGED <<services, methods, registering, picked, listed, made>>

\* It finds one and invokes it: invoke calls Runtime::block_on within a task
\* of that runtime, which panics, and the session's task unwinds.
Invoke(q) ==
    /\ callPc[q] = "calling"
    /\ methods[MethodOf[q]] # NoOne
    /\ picked' = [picked EXCEPT ![q] = methods[MethodOf[q]]]
    /\ callPc' = [callPc EXCEPT ![q] = "panicked"]
    /\ UNCHANGED <<services, methods, registering, listed, made>>

CallStep(q) == Look(q) \/ MethodNotFound(q) \/ Invoke(q)

-----------------------------------------------------------------------------

Next ==
    \/ \E r \in Callbacks : RegisterMethod(r) \/ RegisterService(r)
    \/ \E s \in Services : ListMethods(s)
    \/ \E q \in Calls : CallStep(q)

Spec == Init /\ [][Next]_vars

-----------------------------------------------------------------------------
(* What the sources say of the binding and the code does not keep.         *)

\* "register_service(resource $server, string $name, ...)", "list_methods(
\* resource $server, string $service_name)": a service has methods of its own.
\* A call would be served by a callback that was registered for the service it
\* names, and a list would hold no method but those.
ServicesApart ==
    /\ \A q \in Calls :
            picked[q] # NoOne => ServiceOf[picked[q]] = ServiceOf[q]
    /\ \A m \in listed.methods :
            \E r \in made : ServiceOf[r] = listed.of /\ MethodOf[r] = m

=============================================================================
