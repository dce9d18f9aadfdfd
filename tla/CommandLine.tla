---------------------------- MODULE CommandLine ----------------------------
(***************************************************************************)
(* The program of src/src/bin/quicserve.rs, once as a server and once as a *)
(* client that connects to it, from their options to their end.            *)
(*                                                                         *)
(* The server has no services and the client makes no calls.               *)
(***************************************************************************)
EXTENDS Config

CONSTANTS
    ServerOptions,  \* the options a server may be started with
    ClientOptions,  \* and a client
    NotGiven        \* the options of a program that has not been started

\* The arguments in Commands, those left out that change no control.
ServerOption ==
    [addr : Addresses, format : Formats, cert : Files, key : Files,
     streams : 0 .. MaxU64, idle : 0 .. MaxU64]

\* Whether a method is given, and the file of its input.
ClientOption ==
    [addr : Addresses, format : Formats, ca : {"unset", "absent", "pem", "der"},
     idle : 0 .. MaxU64, method : BOOLEAN, input : {"unset", "absent", "there"}]

ASSUME CommandLineAssumption ==
    /\ ServerOptions \subseteq ServerOption
    /\ ClientOptions \subseteq ClientOption

VARIABLES
    serverOptions, clientOptions,
    serverPc, clientPc,  \* where the main task of each program is
    serveTask,           \* the task that runs Server::serve
    clientEndpoint       \* the endpoint of the client's Client

serverVars == <<serverOptions, serverPc, serveTask>>
clientVars == <<clientOptions, clientPc, clientEndpoint>>
commandLineVars == <<serverVars, clientVars>>

Ended == {"exited", "failed", "panicked", "killed"}

CommandLineInit ==
    /\ serverOptions = NotGiven /\ clientOptions = NotGiven
    /\ serverPc = "idle" /\ clientPc = "idle"
    /\ serveTask = "none"
    /\ clientEndpoint = "none"

\* What Duration::try_into, the reading of files and the like let through.
Outcome(built, next) ==
    CASE built = "ok"    -> next
      [] built = "error" -> "failed"
      [] built = "panic" -> "panicked"

-----------------------------------------------------------------------------
(* run_server.                                                             *)

ServerStarts ==
    /\ serverPc = "idle"
    /\ \E o \in ServerOptions :
        /\ serverOptions' = o
        /\ serverPc' = IF parse_socket_addr(o.addr) /\ parse_format(o.format)
                       THEN "creating" ELSE "failed"
    /\ UNCHANGED <<serveTask, clientVars>>

\* Server::new; on success serve is spawned and the main task waits for
\* Ctrl+C.
ServerCreated ==
    /\ serverPc = "creating"
    /\ LET end == Outcome(build_server_config(serverOptions), "waiting")
       IN  /\ serverPc' = end
           /\ serveTask' = IF end = "waiting" THEN "running" ELSE "none"
    /\ UNCHANGED <<serverOptions, clientVars>>

\* The address cannot be bound.
ServerNotBound ==
    /\ serverPc = "creating"
    /\ build_server_config(serverOptions) = "ok"
    /\ serverPc' = "failed"
    /\ UNCHANGED <<serverOptions, serveTask, clientVars>>

\* The endpoint fails: serve returns, its result is logged and the main task
\* goes on waiting.
ServeEnds ==
    /\ serverPc = "waiting" /\ serveTask = "running"
    /\ serveTask' = "over"
    /\ UNCHANGED <<serverOptions, serverPc, clientVars>>

\* Ctrl+C while it waits for it ends the program in order, and at any other
\* time kills it.  Either way the runtime and its tasks are gone.
ServerStops ==
    /\ serverPc \notin Ended \cup {"idle"}
    /\ serverPc' \in IF serverPc = "waiting" THEN {"exited", "killed"}
                                           ELSE {"killed"}
    /\ serveTask' = IF serveTask = "running" THEN "over" ELSE serveTask
    /\ UNCHANGED <<serverOptions, clientVars>>

-----------------------------------------------------------------------------
(* run_client.                                                             *)

ClientStarts ==
    /\ clientPc = "idle"
    /\ \E o \in ClientOptions :
        /\ clientOptions' = o
        /\ clientPc' = IF parse_socket_addr(o.addr) /\ parse_format(o.format)
                       THEN "creating" ELSE "failed"
    /\ UNCHANGED <<clientEndpoint, serverVars>>

\* Client::new.
ClientCreated ==
    /\ clientPc = "creating"
    /\ LET end == Outcome(build_client_config(clientOptions), "connecting")
       IN  /\ clientPc' = end
           /\ clientEndpoint' = IF end = "connecting" THEN "open" ELSE "none"
    /\ UNCHANGED <<clientOptions, serverVars>>

ClientConnects ==
    /\ clientPc = "connecting"
    /\ serveTask = "running"
    /\ clientPc' = IF clientOptions.method THEN "reading" ELSE "waiting"
    /\ UNCHANGED <<clientOptions, clientEndpoint, serverVars>>

\* Without a method the client waits for Ctrl+C; with one it reads the input
\* file and makes no call.
ClientGoesOn ==
    /\ \/ clientPc = "waiting"
       \/ clientPc = "reading" /\ clientOptions.input # "absent"
    /\ clientPc' = "closing"
    /\ UNCHANGED <<clientOptions, clientEndpoint, serverVars>>

\* The Client is dropped, which closes its endpoint.
DropsClient == clientEndpoint' = "closed"

ClientCloses ==
    /\ clientPc = "closing"
    /\ clientPc' = "exited"
    /\ DropsClient
    /\ UNCHANGED <<clientOptions, serverVars>>

\* Mutant of ClientFails: Client has no Drop.
ClientFailsOpen ==
    /\ \/ clientPc = "connecting"
       \/ clientPc = "reading" /\ clientOptions.input = "absent"
    /\ clientPc' = "failed"
    /\ UNCHANGED <<clientOptions, clientEndpoint, serverVars>>

\* connect fails, or the input file cannot be read: ? returns.
ClientFails ==
    /\ \/ clientPc = "connecting"
       \/ clientPc = "reading" /\ clientOptions.input = "absent"
    /\ clientPc' = "failed"
    /\ DropsClient
    /\ UNCHANGED <<clientOptions, serverVars>>

\* A signal or a power failure: nothing is dropped.
ClientKilled ==
    /\ clientPc \notin Ended \cup {"idle"}
    /\ clientPc' = "killed"
    /\ UNCHANGED <<clientOptions, clientEndpoint, serverVars>>

-----------------------------------------------------------------------------

CommandLineNext ==
    \/ ServerStarts \/ ServerCreated \/ ServerNotBound
    \/ ServeEnds \/ ServerStops
    \/ ClientStarts \/ ClientCreated \/ ClientConnects \/ ClientGoesOn
    \/ ClientCloses \/ ClientFails \/ ClientKilled

-----------------------------------------------------------------------------
(* Properties.                                                             *)

\* A client that ends by itself, on whatever path through run_client, has
\* closed its endpoint.
EndedClientIsClosed ==
    clientPc \in {"exited", "failed"} => clientEndpoint # "open"

=============================================================================
