# A verification project for QuicServe

QuicServe is an RPC library in Rust: Protobuf or JSON requests and responses over one
bidirectional WebTransport stream per session, over HTTP/3, QUIC and tokio. This
directory holds TLA+ models of it, the TLC configurations that check them and
TLAPS proofs about them. Paths below are relative to the repository. The sources
do not build as they stand (missing imports, and bindings that call functions the
library does not have); the models follow what the code says.

Part A is the inventory of the system, part B says how the modules correspond to
the code, part C what is checked, part D what is proved, part E what is left.

## A. The system

| Component | Source | State | Operations |
|---|---|---|---|
| RPC client | `src/client.rs` | `session`, `message_stream`, `pending`, `next_id`, each behind a tokio mutex; the quinn endpoint | `connect`, `call`, `close`, `Drop`; the response-handler task that `connect` spawns |
| Server: sessions and registry | `src/server.rs` (48-52, 143-237) | `services` behind a tokio `RwLock`; per session the stream and the request in hand | `register_service`, the loop of `handle_session` |
| Server: accepting | `src/server.rs` (17-141) | the endpoint; per connection the HTTP/3 connection | `new`, `serve`, `handle_connection` |
| Framing and codecs | `src/transport.rs`, `src/lib.rs` (61-110) | read and write buffers of a stream | `MessageStream::send` and `receive`; `LengthDelimitedCodec`, `ProtobufCodec`, `JsonCodec`; `serialize`, `deserialize` |
| Utilities | `src/utils.rs` | none | `retry_with_backoff`, parsing and validation of parameters |
| Configuration | `src/config.rs`, `src/utils.rs` (36-42, 177-188) | `ClientConfig`, `ServerConfig` | building of quinn configurations, files and certificates, reading of addresses and formats |
| Bindings | `src/bindings/` | Node: a client or a server behind an `Arc`, a runtime per call; Python: a global runtime and the GIL; PHP: one implementation object shared by the services of a server | wrappers of the client and the server |
| Command line | `src/bin/quicserve.rs` | the options; the endpoint of each program | `run_server`, `run_client` |
| Examples | `examples/` | the files of a certificate and its key | the example server generates them when one is missing; the example client is a sequence of calls |

How they interact. `Client::call` sends a request on the stream that
`connect` has stored and waits on a oneshot channel; the response-handler task
reads the same stream, finds the channel in `pending` by the id of the response
and completes it. `close` and `Drop` take session, stream and pending requests
away under them. On the server one task per session reads requests, looks the
service up in the shared registry, calls it under a timeout and writes the
response; `register_service` changes the registry. The `Server` is consumed by
`serve(self)` in Rust programs, but the Node binding shares it in an `Arc` and
can register while it serves, so the server model lets registrations
come at any time; programs that register first are among its behaviours.

What is hard in each, and what makes it correct:

* Client. Three critical sections per call (id, map, stream) with other calls,
  reconnections, closes and losses in between; a stream that is moved between a
  slot and a task; guards held over an await; cancellation. It is correct when a
  caller only ever gets the answer to its own request, a waiting caller is always
  known to whoever can wake it, no writer loses its stream half way, no request
  is delivered twice, and calls, closes and handlers end.
* Server sessions. A lock shared by all sessions, guards that live over a send,
  services that are replaced, hang, fail or panic, clients that do not read or
  disappear. It is correct when responses are in request order, one each; the
  registry behaves as if it were consulted in one instant; the lock is released
  on every path; requests and registrations complete.
* Accepting. One bad connection must not stop the loop that accepts the others, and a
  connection that goes must take its tasks with it.
* Framing. A frame cut into pieces, several frames in one read, a length beyond
  the limit, a stream that ends within a frame.
* Utilities and configuration. Zero and boundary values: no retries, delays at
  the maximum, delays below a millisecond, an idle timeout of zero, numbers beyond
  a VarInt, files without a key, or with one in another form. Some are errors and some
  panics, and which they are should be known.
* Programs. What stays behind when one ends: an endpoint nobody closes, two files of
  which one is old or half written.
* Bindings. Lifetimes: a task outliving the runtime that polls it; the global
  interpreter lock, held while waiting for someone who needs it; an object shared
  by what looks like separate services; a promise that nobody settles.

`PROJECT.json` lists the hazards line by line.

## B. The modules

| Module | What it is |
|---|---|
| `Client`, `MCClient` | the client with its handler tasks, the stream below and the peer behind |
| `Deliveries`, `MCDeliveries` | `Client` with a history of all that its streams have carried |
| `ClientProofs` | theorems about `Client` and `Deliveries` |
| `RpcService` | what the server promises, without locks, tasks or transport |
| `Server`, `MCServer` | the registry, its lock, the sessions and the clients behind them |
| `ServerProofs` | theorems about `Server`, the implementation of `RpcService` among them |
| `RemoteCall` | what a caller may rely on, whatever becomes of the streams |
| `RpcSystem`, `MCRpcSystem` | `Client` and `Server` composed, each the environment of the other |
| `RpcSystemProofs` | theorems about `RpcSystem`: it is a `Client`, a `Deliveries`, a `Server` and a `RemoteCall` |
| `ServerAccept`, `MCServerAccept` | accepting connections and sessions |
| `AcceptProofs` | theorems about `ServerAccept` |
| `MessageQueue` | what a stream of messages promises |
| `MessageStream`, `MCMessageStream` | frames over a stream of bytes |
| `StreamProofs` | theorems about `MessageStream` |
| `RetryBackoff` | `retry_with_backoff` |
| `RetryProofs` | theorems about `RetryBackoff` |
| `PyServer`, `MCPyServer` | Python services, the ways to serve them, and Python callers |
| `PyProofs` | a theorem about `PyServer` |
| `PhpServer`, `MCPhpServer` | PHP services |
| `Config` | what becomes of options, as operators |
| `CommandLine` | the two programs of the command line |
| `NodeBinding` | JavaScript objects, threads, runtimes and promises |
| `ExampleServer` | the example server's certificate and key |
| `Programs`, `MCPrograms` | the last three and `RetryBackoff`, of which a behaviour runs one |
| `ProgramProofs` | theorems about `CommandLine` and `ExampleServer` |

### `Client`

An element of `Calls`, `Connects` or `Closes` is one invocation of that method. A
connect also names the stream it opens and the handler it spawns, so several of
them are a reconnection. Steps are cut where the code awaits. The
critical sections of the `next_id` and `pending` mutexes contain no await and are
one step each. `close` awaits while it holds the session mutex and `call` and
`close` while they hold the stream mutex, so these two have owner variables
(`sessionLock`, `streamLock`).

| Code | Actions |
|---|---|
| `call`: id, sender, slot, send, wait | `TakeId`; `Register`; `Refuse`, `RefuseOversized`, `BeginSend`; `Flush`, `FailSend`; `Receive`, `Timeout` |
| dropping the future of a call | `Cancel` |
| `connect` | `ConnectOpen`, `ConnectFail`, `ConnectSession`, `ConnectStream` |
| `start_response_handler` | `HandlerTake`, `HandlerDispatch`, `HandlerSkip`, `HandlerEnd`, `HandlerPutBack` |
| `close`, `Drop` | `CloseSession`, `CloseStream`, `ClosePending`; `DropClient` |
| the transport and the peer (external) | `PeerRead`, `PeerReply`, `PeerGarbage`, `PeerEnds`, `ConnectionLost` |

A message keeps its id and, as a history field nobody reads, the call it is of.
Payloads, service names and methods are left out: the client does not look at
them; that a payload may be too long for the codec is `RefuseOversized`. Frames
are whole: the write buffer of a stream (`wbuf`) holds the frames that flow
control has not admitted yet, and keeps the frame of a call that is cancelled in
the middle of a send, as the buffer of `Framed` does. `IdSpace` stands for 2^64
and the counter wraps.

Abstractions: the five fallible steps of `connect` before anything is stored are
one step that succeeds or fails; a handler's dispatch (receive, remove from
`pending`, send on the channel) is one step, since nothing but the handler
touches its stream and the removal is what other tasks can see; the peer answers
each request at most once, in any order, with a response or with bytes that do
not decode. When a connection goes (`TakeDown`) any first part of what the peer had
written may still be read, since it may be in the read buffer of `Framed` already.

`Client` forgets a request that the peer has answered or that went with its stream.
`Deliveries` adds a history of every frame that a stream has handed to the transport
(`asked`), which no step forgets.

### `Server` and `RpcService`

A session has a program counter for the awaits of `handle_session`: accepting the
stream, receiving, queued for the lock, calling the service, sending. A
registrar is one invocation of `register_service`. `lockQueue` is the FIFO queue
of the tokio `RwLock` and `readers` the sessions that hold a read guard beyond
one step.

| Code | Actions |
|---|---|
| `register_service` | `RequestWrite`, `Insert` |
| `accept_bi` | `AcceptStream`, `AcceptFail` |
| `receive`, `deserialize`, splitting the method | `EndOfStream`, `ReceiveGarbage`, `ReceiveMalformed`, `Receive` |
| the lookup | `Found`, `NotFound` |
| the call under `timeout` | `CallDone`, `CallPanics` |
| `stream.send(response)` | `Reply`, `ReplyFails` |
| the clients (external) | `OpenStream`, `Send`, `Read`, `Finish`, `Break` |

A request is its method: a name, `Malformed` (no dot) or `Garbage` (bytes that do
not decode). A response is the index of its request and a tag for the kind of
outcome. `Break` loses any set of streams at once: a client that is dropped closes its
endpoint, and with it all of its connections; what had arrived at the client may still
be read. `order` and `floor` are history variables: the registrations that
took effect, and how many of them a session's request came after.

`RpcService` has five actions: `Register`, `Ask`, `Begin` (the request is taken up and
the registry consulted, in one instant), `Answer` and `Stop`. The refinement maps
a registered name to a slot of the registry that is filled, the request in hand
to the program counter and the response of the session, and an ended session to
a stopped one.

`ReplyTooLong` is the response that the codec refuses: `send` fails before a byte
is written and the session ends.

### `RpcSystem` and `RemoteCall`

`RpcSystem` extends `Deliveries` and instantiates `Server` with the sessions named
after the connects that open them. The server's `sent` is the sequence of frames that
the client has flushed (`asked`), its view of a stream is computed from the
client's (`SeenByServer`), and a response it writes is the frame the client's
handler will read (`Answer`). Each action is one of `Client`, one of `Server`, or one
of each where they meet:

| Meeting | Actions |
|---|---|
| a request reaches the transport, and is taken up | `Ask`; `TakeUp` |
| a response is written, and read by the handler | `Respond`; `Dispatch` |
| either end goes | `EndSession`; `ClientAlone` through `SeenByServer` |
| the client or the server alone | `ClientAlone`; `RegisterService`, `Accept`, `LookUp`, `Serve` |

The history variable `execution` records what became of the request of each call.
`RemoteCall` has only that and the outcome of each call. Its `Return` says what a caller
may conclude: an answer is the outcome of the one execution, an error response
means refused or failed there, and a client-side error (closed, timed out,
transport) leaves open what the server did or will do.

### `ServerAccept`

Stops where `Server` starts: the QUIC endpoint with its backlog, the loop of
`serve`, one `handle_connection` task per connection, and the fate of each request
for a session.

| Code | Actions |
|---|---|
| `serve` | `TakeIncoming`, `HandshakeDone`, `HandshakeFailed`, `ServeReturns` |
| `handle_connection`: set-up | `Start`, `StartFails` |
| its loop | `TakeRequest`; `AcceptSession`, `AcceptFails`; `Reject`, `RejectFails`; `NoMoreRequests` |
| a session's task (`Server` in detail) | `SessionEnds` |
| peers and endpoint (external) | `Attempt`, `Establish`, `Leave`, `Lose`, `Offer`, `CloseEndpoint` |

`idle_timeout` says whether the configuration sets one: `idle_timeout_ms = 0` turns it
off (`config.rs:163-166`), and then nothing ends a handshake with a silent peer, which
`serve` awaits (`server.rs:63`). It is any Boolean that a behaviour keeps. A peer that
shuts down in order (`Leave`) asks for nothing more; `accept` returns `None` to the loop
when what it had asked for is answered, as it does when the connection is lost
(`NoMoreRequests`).

Assumed of the HTTP/3 library: rejecting with `ErrorLevel::ConnectionError`, and
dropping its connection, close the QUIC connection.

### `MessageStream` and `MessageQueue`

`MessageStream` is one direction of a stream: the write buffer, the transport, the
read buffer and the state of the decoder. A byte is known by the frame and the
place it was written for, so that a payload put together from wrong bytes
shows. The code's part is small (`new`, `send`, `receive`); `Framed` and the
codec are modelled from how it uses them. `MessageQueue` has `Send`, `Receive` and
`End`; a payload that is byte for byte that of the next message is mapped to that
message. This is what lets `Client` and `Server` treat frames as whole. One thing
it shows on the way: when the sender disappears after the header of a frame has
been decoded and before a byte of the payload arrived, `receive` reports a regular
end.

| Code | Actions |
|---|---|
| `send` | `Send`, `Write`, `SendDone`; dropped: `Cancel` |
| `receive` | `DecodeHead`, `DecodePayload`, `Read`, `ReadEnd` |
| dropping the stream; the connection | `Finish`; `Lose` |
| a peer without a limit (external) | `SendUnlimited` |

### `RetryBackoff`

`retry_with_backoff`: `Retry` is the call, `Succeed` and `Fail` are the outcomes of a call
of `f`, `Wake` the end of a sleep and the computation of the next delay. The call takes any
arguments, so that one run covers many. Durations are ticks, finer than the milliseconds in
which the code computes.

### `PyServer`

| Code | Actions |
|---|---|
| `register_service` | `Register` |
| `serve` | `Serve`, `Start`, `StartFails`, `ServeEnds`, `Return` |
| `serve_in_background` | `ServeInBackground`, `Launch`, `LaunchFails`, `Join` |
| `PythonServiceBridge::call` | `Poll`, `Enter`, `ServiceReturns`, `Leave`; `Crash` |
| `PyClient::connect` and `close` | `Block`, `Unblock` |
| `PyClient::call` | `Call`; `CallAnswered`, `CallTimesOut` |
| interpreter, endpoint, sessions (external) | `TakeGil`, `YieldGil`, `CloseEndpoint`, `Arrive` |

`borrowed` is pyo3's check that no two methods use the object at once. `Workers` is
the number of tokio worker threads. A Python thread that calls lets the GIL go and
has to get it back to return; the service it calls may be one of its own process.
What the methods of `PyClient` do to the connection is in `Client`.

The bridge makes the arguments and calls the service inside `allow_threads`, with a
token of the GIL from outside (`python.rs:184-189`): Python objects are used by a thread
that does not hold the GIL. This is undefined behaviour. Of what a build can make of it
the model has two outcomes: the service runs as if all were well (`Enter`,
`ServiceReturns`, with the GIL free for others meanwhile), or the process goes down with
all its threads and sessions (`Crash`). Memory that is corrupted and goes on to do
something else has no model. What the properties say of requests and calls is
therefore said of processes that do not crash.

### `PhpServer`

| Code | Actions |
|---|---|
| `register_service` | `RegisterMethod`, `RegisterService` |
| `list_methods` | `ListMethods` |
| `PhpServiceImpl::call`, `PhpCallback::invoke` | `MethodNotFound`, `Invoke` |
| the lookup of a session | `Look` |

Calls may come between the two steps of a registration. `invoke` calls
`Runtime::block_on` from a task of the same runtime, which panics, so that a call
ends in `panicked` once it has found its callback.

### `Config`, `CommandLine`, `NodeBinding` and `ExampleServer`

`Config` has no state. A file is unset, absent, torn, empty of PEM sections, has other
sections than those looked for, or has one half of a key pair, and building a configuration
is "ok", "error" or "panic". The widths of numbers are constants: `MaxU64` is what the
command line reads, `MaxVarInt` what QUIC takes, and `MaxU32` what the Node binding keeps of
a JavaScript number. A server panics over a number beyond a VarInt, and over a key file
without a PKCS#8 section (`config.rs:148-150` removes the first of an empty list): an empty
one, a PKCS#1 or SEC1 key, or the certificate. The latter is what `openssl genrsa` of
OpenSSL 1 writes in `scripts/generate_certificates.sh`.

| Code | Actions |
|---|---|
| `run_server` | `ServerStarts`, `ServerCreated`, `ServerNotBound`, `ServeEnds`, `ServerStops` |
| `run_client` | `ClientStarts`, `ClientCreated`, `ClientConnects`, `ClientGoesOn`, `ClientCloses`, `ClientFails` |
| the operating system (external) | `ClientKilled` |
| Node: `create_client`, `create_server` | `Create`, `CreateThrows`, `CreateReturns` |
| Node: `registerService`; the other methods | `RegisterService`; `CallMethod`, then `ConnectEnds`, `CallEnds`, `CloseEnds`, `ServeReturns`, `ServeThrows` |
| the event loop (external) | `Settle` |
| example server: `main` | `LookForFiles`, `ReadCrt`, `ReadKey` |
| `generate_self_signed_cert` | `CreateCrt`, `FillCrt`, `CreateKey`, `FillKey`; `WriteFails` |
| a kill (external) | `Die` |

`std::fs::write` is two steps, since it creates or truncates the file before it
writes. Either may fail (`WriteFails`), and a kill or an error in the second leaves an
empty or a torn file. The two files may be anything at first, each on its own: the
script writes the same two. `unfit` and `disturbed` are history variables: both files were
there at first and do not do; some start was killed or failed to write while it wrote, or
another ran while it wrote. In `NodeBinding` an object is created on a runtime that is
dropped when the creation returns, and with it the driver of its endpoint
(`driver`), so later methods find an endpoint that does nothing; quinn then refuses to
connect and has nothing to accept.

`Programs` picks one of the three, or a caller of `retry_with_backoff`, for each
behaviour. They share only `Config`, and one run serves for all.

## C. What TLC checks

| Run | Instance | Shows |
|---|---|---|
| `client` | 2 calls, 1 connect, 1 close, 2 ids, window 1, a peer that reads | `TypeOK`, `ResponseMatchesCall`, `WaiterIsPending`, `SenderHoldsStream`, `CloseWakesEveryWaiter`, `CallReturns`, `CloseReturns`, `HandlersExitAfterDrop` |
| `client_reconnects` | `Deliveries`: 2 calls, 2 connects, 1 close, 2 ids, window 1 | `AtMostOnceDelivery` |
| `client_refused` | 1 call, 1 connect | a disagreement, below |
| `server` | 2 sessions with 1 and 2 requests, 1 registration, window 1 | `TypeOK`, `RepliesInOrder`, `GuardsAreLive`, `RequestSeesRegistration`, `ImplementsPromise`, `RegisterCompletes`, `RequestAnswered` |
| `server_stalled` | the same, one client does not read | a disagreement, below |
| `system` | 2 calls, 1 connect, 1 close, 1 registration | `AnswersInOrder`, `ImplementsRemoteCall` |
| `accept` | 2 connections, 3 requests, one of them for another path | `ConnectionsAccounted`, `ConnectionKept`, `ConnectionTakenUp`, `RequestDecided`, `LostConnectionCleared`, `ServeWindsUp` |
| `stream` | 3 sends of messages of size 0, 2 or 3, header 2, limit 2, buffer boundary 3 | `FramesIntact`, `WithinLimit`, `ImplementsQueue`, `FlushedIsReceived` |
| `py_server` | 2 threads, 2 services, 2 requests, 1 worker | `NoServiceMissed`, `RequestAnswered`, `CallComesBack`, `ServeReturns` |
| `py_background` | the same | a disagreement, below |
| `php_services` | 3 registrations, 2 services, 2 methods, 2 calls | a disagreement, below |
| `programs` | some twenty sets of server options and eleven of client options; 2 promises; 3 starts with any two files at first; 6 initial delays, 5 caps, 4 numbers of retries | `EndedClientIsClosed`, `PromisesSettle`, `PairFailsWhenDisturbed`, `GivesUpInTime`, `SleepIsBounded`, `BacksOff` |

Bounds. Two calls are enough for one to overtake, displace or be taken for the other; two
ids make the counter wrap within a run (the last id is given out and the next one is the
first). A window of one message makes every second send block. Two sessions are what it
takes for one to hold the lock and one to wait, and two requests in one of them give a
request after a reply. The instances with liveness properties have to stay small; a second
connect (a reconnection, with the handler before it still alive) and a second registration
of one name (a replacement) are beyond them. `client_reconnects` has the second connect, for
the property that is about two streams. The other safety properties of those cases are the
ones that are proved, for any number of either (part D). In `RpcSystem` the two calls are
symmetric, and each asks for a method of the registered name, for a malformed one or sends
what the server cannot decode. In `ServerAccept` a connection has two requests, one on each
path, next to another connection. In `MessageStream` a read or a write may bring any number
of bytes, a buffer can hold the rest of a cancelled frame and a second one, and messages are
empty, as long as the limit, or longer. In `RetryBackoff` a tick is half a millisecond, and
the caps lie below, between and above the delays. One worker is the fewest threads there can
be for Python calls to block. Symmetry is used in `system` and `client_reconnects` only,
which have no liveness property. `programs` sets the widths to 2, 4 and 6, and numbers are
tried at and beyond each bound, at 0 and at 1; with three starts one can be killed, and two
more meet what it left.

Fairness. What tokio gives is stated per task. `TaskFairness` of `Client`: a task that
can go on is polled, a timer fires, and a task waiting for a mutex that is
released again and again gets it, since the mutex is FIFO (hence SF and not WF).
No caller has to start, cancel, connect, close or drop. The run adds that the peer
reads (`ReadingPeerSpec`). That is an assumption the real server does not always
meet, see the standoff below: without it, a send blocked on flow control keeps its
call, and all that need the stream mutex, waiting for ever. The server's `FairSpec` has no SF:
its queue is in the model, and the head of a queue stays enabled. A service need
not panic; a service that never answers is ended by the timeout, which is part of
`CallDone`. Only clients in `Readers` have to read.
`ServerAccept` assumes that tasks are polled, and that a handshake that does not complete
is ended by quinn's idle timeout where one is set. Nothing is assumed of a peer whose
connection is up: the task that sets HTTP/3 up, or waits for a request, goes on only when
the peer has asked for something or is gone (`HandlerProgress`). `ConnectionTakenUp` and
`RequestDecided` are stated for a server with an idle timeout; without one they fail, since
a silent peer can hold `serve` for ever. `MessageStream`
assumes only that the receiver goes on receiving, as `handle_session` and the
client's handler do. `PyServer` assumes that the interpreter switches threads and
everyone who waits for the GIL gets it in the end (SF), that tasks are polled, and
that a Python service returns unless the process crashes. Nothing in the repository
closes an endpoint that `serve_in_background` has been left with, and none has to close:
`RequestAnswered` and `CallComesBack` of `PyServer` are stated for behaviours in which it is
true again and again that no thread joins (`NobodyJoins`); in the others the GIL is not to be
had. `NodeBinding` assumes that
threads run and that the script returns to the event loop again and again.

Disagreements between the code and what the repository says of it, each the only
property of a `violation` run:

* `client_refused`: the handler takes the stream out of the slot that `call`
  sends on, for as long as it reads, so a connected client refuses calls
  (`ConnectedCallIsSent`).
* `server_stalled`: the `Service not found` response is sent under the registry's
  read guard. A client that does not read it blocks a registration, and the
  registration blocks the lookups of all other sessions (`ReaderIsAnswered`).
* `py_background`: `serve_in_background` starts a thread and joins it, under the comment
  "Detach thread", with the GIL held. Its comment says "in a background thread" and a test
  "Non-blocking"; it comes back when the server ends (`BackgroundIsNonBlocking`), and no
  other Python thread and no Python service runs until then.
* `php_services`: one object holds the methods of all services of a PHP server, so
  methods are listed under services they do not belong to (`ServicesApart`).

What else the models show, or reading for them did, and no run is spent on:

* Calls that fail leave their senders in `pending` until a late answer or `close`
  removes them.
* The handler of a lost connection puts its dead stream into the slot even if a
  reconnection has put an open one there, and also after `close` has emptied it.
* A standoff: calls made before the handler's first poll hold the stream mutex
  while they send (`client.rs:219`), a server whose response waits for flow control
  has stopped reading, and the handler that would read the response waits for the
  mutex. `timeout_ms` does not cover the send. It takes as many calls as fill the
  stream both ways, which is more than the instance of `system` has.
* A delay below a millisecond counts as zero in the computation of the next, so
  that none follows (`utils.rs:77`; `BacksOff` is about whole milliseconds).
* The JSON codec takes the beginning of a message for an error, and the Protobuf codec
  takes all bytes at hand for one message (`transport.rs:83`, `147`); nothing uses them.
* With `idle_timeout_ms = 0` one peer that does not go on with its handshake keeps `serve`
  from all other connections (`server.rs:63`), and the command line's server never forgets
  a client whose close notice was lost.
* A key in PKCS#1 or SEC1 form, or the two paths exchanged, panics (`config.rs:150`).
* The CA file is taken for DER although `config.rs:22` says PEM, so every PEM file
  fails; `verify_peer` is not looked at, although `examples/rpc_client.rs:23` sets it.
* Node endpoints have lost their driver before the first method is called:
  `connect` always rejects and `serve` resolves at once. Numbers are taken modulo
  2^32, so an idle timeout of 2^32 ms becomes none.
* `parse_format`, which the command line uses, takes "proto" and capital letters; the
  bindings take neither.
* The command line's server stays when `serve` has ended (`quicserve.rs:214`), and
  drops its sessions on Ctrl+C (`quicserve.rs:221`).
* PHP ports are truncated to 16 bits (`php.rs:437`).
* A service that computes without awaiting keeps its worker past the timeout
  (`examples/rpc_server.rs:102-110`).
* `validate_connection_params` is called by nothing, and `check_stream_alive`
  (`utils.rs:103-118`), called by nothing either, would write raw bytes into a stream of
  frames.
* `max_concurrent_streams` limits unidirectional streams only (`config.rs:169`); the
  bidirectional ones that sessions use keep quinn's default.

Every property of a passing run has a mutant in `PROJECT.json`: a bug of the kind
one would make in that place, under which the run finds the property violated.
The mutated definitions stand before the originals in the modules.

## D. What is proved

Proved by TLAPS for every value of the constants that meets the ASSUME of the
module (`ClientAssumption`, `ServerAssumption`, `SystemAssumption`, `AcceptAssumption`,
`RetryAssumption`, `PyServerAssumption`, `StreamAssumption`, and those of the programs); TLC
evaluates each on its run.

`ClientProofs`:

* `TypeCorrect`. `TypeInv` is `TypeOK` and that a reading handler has a stream.
* `ResponseMatchesCallCorrect`, `WaiterIsPendingCorrect`,
  `CloseWakesEveryWaiterCorrect`. The invariant is `IdInv`. Ids are given out in
  order, so as long as the counter has not wrapped it is the number of
  calls that have taken one, and since there are at most `IdSpace` calls no two
  calls share an id (`DistinctIds`). Hence a frame anywhere carries the id of its
  own call (`OwnMessages`), the map holds a call only under its own id
  (`PendingIsOwn`), and what a dispatch finds under a response's id is the call the
  response is of. The assumption that there are no more calls than ids is needed:
  after 2^64 calls an id may be that of a call still waiting.
* `SenderHoldsStreamCorrect`. The invariant `LockInv` adds who may own the
  stream mutex and in which state.
* `AtMostOnceDeliveryCorrect`, of `Deliveries`. The invariant `DeliveryInv` says that the
  frame of a call is in one place of one stream (`OnePlace`, `OneStream`): the write buffer,
  or the history of what the stream has carried; and in none before its send begins
  (`SentByNow`). The history forgets nothing, so this is about the whole life of the client,
  whatever was answered or lost. With `LockInv` a sender writes to the stream in the slot,
  once.
* `OneOwnerCorrect`, which no run checks: what `Option::take` and the assignments to the slot
  give in sum. A stream is in the slot or with one handler, from when its connect has
  stored it until the client drops it. A handler that puts its stream back over that
  of a reconnection loses the latter, but never makes two tasks share one.

`ServerProofs`:

* `TypeCorrect`, `RepliesInOrderCorrect`, `GuardsAreLiveCorrect`. The invariant is
  `Inv`: `TypeOK` needs to know that a queued session has a name in hand
  (`InHand`), that who leads the queue is queued (`GuardsAreLive`), which needs
  that nobody is in the queue twice (`QueuedOnce`).
* `PromiseCorrect`: under `Inv` every step of `Server` is a step of `RpcService`
  or leaves its variables alone. `RepliesInOrder` is what makes the request in
  hand the one that `RpcService` takes up next.
* `RequestSeesRegistrationCorrect`. In `SeesInv` the registry holds the last registration
  of each name in `order` (`RegistryIsLatest`), and no session's `floor` is ahead of it.

`RpcSystemProofs`, about client and server together:

* `SystemIsClient`, `SystemIsDeliveries`: every step of the composition is one of `Client`,
  with its entry in the history, or leaves its variables alone, so `IdInv` and
  `DeliveryInv` hold in it.
* `SystemIsServer`: every step is one of `Server` with these constants: a session for every
  connect, at most as many requests on a stream as there are calls, and the `sent` and
  `stream` that the client makes. A request fits because a stream carries each request once
  (`AskedOnce`, which is `DeliveryInv` again), and an answer that the client reads is one
  that the server has sent (`Linked`). `ServerAssumption` follows from `SystemAssumption`
  and `ClientAssumption` (`ServerFacts`). Whatever is proved of `Server` therefore holds
  here too; `SystemKeepsPromise` takes `ImplementsPromise` over.
* `SystemInvCorrect`. `SystemInv` is `IdInv`, `DeliveryInv`, the `Inv` of `Server`, and what
  ties the two ends of a stream together:
  * `Linked`: on a stream that the client still reads, the replies that the server has
    written are those read and then those on the way. A connect that has not begun has
    no stream, which for the streams in the slot and with the handlers is `StoredAreOpened`.
  * `OnTheWay`: the k-th response on the way is to the k-th request without an answer,
    and what the execution of that request allows.
  * `Executing`: a request that is not taken up has no execution, and that of the request
    in hand is as far as the session is. It makes each step of a session a step of
    `RemoteCall`.
  * `AllTold`: a channel holds only what the execution of its call allows; a call that
    has an answer has been heard of, and one that has been heard of no longer waits.
    That a dispatch reaches the caller it is for takes `IdInv`: the response carries the
    id of the call it is of, under which a waiting call is registered.
* `AnswersInOrderCorrect`. A call is heard of when the client has read as many answers on
  the stream as its place in `asked`; so have then all before it, and by `AllTold` none
  of them waits.
* `ImplementsRemoteCallCorrect`: the whole of `SystemSpec => ImplementsRemoteCall`. A step of a
  session is a `Reject`, `Begin` or `End`, or leaves the execution alone; a step of
  the client alone is a `Return` of what `AllTold` allows, or leaves the outcomes alone.

`AcceptProofs`:

* `ConnectionsAccountedCorrect`. `ConnInv`: no connection is in the backlog twice, one that
  nobody attempted is nowhere, and a closed endpoint has none, which is why `serve`
  leaves nobody behind when it returns.
* `ConnectionKeptCorrect`. `HandlingInv` adds that a task has a request in hand exactly
  while it answers; it needs `ConnInv`, by which a task is started at most once.

`StreamProofs`:

* `FramesIntactCorrect`, `WithinLimitCorrect`. `StreamInv` takes the read buffer, the
  transport and the write buffer as one pipe (`Pipe`), in which a write, a read or a
  cancelled send moves bytes and changes nothing (`PipeStays`). `Chain` says of each byte
  which bytes stand behind it up to the first of the next frame, of all of them at once,
  so that a payload is read off the first byte and no induction is needed. The first
  byte of the pipe is the one that the decoder waits for (`Expected`), and a length it
  has read is that of the next message (`HeaderIsNext`). That a frame is put behind a
  whole one needs that nothing is missing at the end of the pipe while the sender is
  there (`Complete`), and that an empty pipe means that all has been received
  (`EmptyIsDone`): this is what a cancelled send would break if it took its rest of
  the buffer with it. When the stream is finished or lost the pipe loses its end, and
  what is left is still a chain (`PipeEnds`).
* `ImplementsQueueCorrect`: the whole of `Spec => ImplementsQueue`. By `FramesIntact` the
  messages received are the first of those sent, so a payload that is decoded is the
  next one of the queue.

`PyProofs`:

* `NoServiceMissedCorrect`. `BorrowInv` is a lock invariant: whoever serves has the
  mutable borrow from the copy of the services until the server has ended, and a
  registration needs it. A crash leaves neither threads nor a server.

`ProgramProofs`:

* `EndedClientIsClosedCorrect`. `EndpointInv`: there is no endpoint before it is created.
* `PairFailsWhenDisturbedCorrect`, for any number of starts and any files at first. `PairInv`:
  unless the two files were unfit at first, and undisturbed, a start that writes is alone,
  the files are as its place in the writing requires (`FilesOf`), and when nobody writes
  two that are there are whole and belong together (`FilesAtRest`); one without the other may
  be anything, since it is written anew.

`RetryProofs`:

* `TypeCorrect`, `GivesUpInTimeCorrect`, `SleepIsBoundedCorrect`, `BacksOffCorrect`,
  for all arguments and every jitter. `Inv` relates the attempts to the failures
  counted (`Counted`) and caps all delays but the first (`Delays`), which is what
  bounds their sum. `NextDelayBounds` is the arithmetic of one delay.

Only model-checked: all liveness (the properties of the passing runs that no theorem
states), which is out of the prover's reach, as are ENABLED, and with it the absence of
deadlock, and induction over recursive definitions. `PhpServer` and `NodeBinding`
have no theorems: of the first there is the disagreement that its run shows, of the
second a liveness property.

## E. Not modelled, and the plan

Not modelled: `error.rs` (values and their formatting), the binding files that are
empty, TLS itself, logging, benchmarks and tests. Of the transport, QUIC, HTTP/3 and
WebTransport are environment.

The Protobuf and JSON codecs of `transport.rs` are used by nothing; `serialize` and
`deserialize` of `lib.rs` are pure, and that they may fail is in `Client` and `Server`. The
conversions of `Config` have no property of their own, since it would repeat them.

Modelled in part:

* Python: the reading of options and the conversion of arguments and results are
  left out; they call into Python under the GIL and change no state.
* PHP: how values pass between PHP and Rust, and `PHP_SERVICE_REGISTRY`, which nothing
  uses. That every callback panics (`php.rs:141`) is in the model without a property,
  since it would repeat one step.
* Node: `on`, whose callback nothing calls, and the conversion of values, which the
  source leaves as a TODO.
* Utilities: `validate_connection_params`, `check_stream_alive`, `timed` and the
  readers of certificates are called by nothing.
* Examples: the services of the example server are functions of their payload, and the
  example client makes calls as `Client` has them.

All modules of the plan are written, and every safety property and every refinement that a
passing run checks is proved. What is worth doing next:

* that no promise of a `connect` of `NodeBinding` is ever resolved, which its runtime decides;
* `Client` over the frames of `MessageStream`, so that a frame left behind half written by a
  cancelled send is in the composition and not an argument of `ImplementsQueue`.
