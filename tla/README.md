# A TLA+ model of cppboot

cppboot (`src/cppboot`) is a C++ base library: a message bus between processes,
a TCP layer on asio, an HTTP server, a plugin manager, an object environment and
the string, status and file helpers these rest on. This directory holds TLA+
modules for the parts whose correctness depends on state, order and threads, the
TLC configurations that check them on small instances, and TLAPS proofs.

## The system and its parts

| part | state | operations | what makes it correct |
|---|---|---|---|
| `adv/bus/invoker`, `method.h` | `next_id_`, `waitings_`, one `Result` (mutex, condition, `ok_`, `out_`) per call | `Call`, `ACall`, `HandleResponseMessage`, `Wait`, `WeakUp` | a call returns its own answer; no wake-up is lost; a response finds its Result |
| `adv/bus/client` | service, invoker, transport | `Start`, `Stop`, `AddMethod`, `Call`, `ACall`, the two transport callbacks | requests are served, responses reach the invoker |
| `adv/bus/server`, `router` | local service, name -> connection | `HandleConnection`, `OnReceive`, forwarding, registration | a request reaches the service it names, the response the client that asked |
| `adv/bus/service` | method table | `AddMethod`, `ServeMsg` | the response carries the id and the caller of its request |
| `adv/bus/context`, `msg`, `msg_packer` | parser state, header | `Parse`, `SendMessageToConnection`, `Pack`, `Unpack` | messages come out as they went in, whatever the chunks |
| `net/buffer.h` | vector, reader, writer | `Append`, `Retrive`, `Unwrite`, `swap`, ... | a FIFO queue of bytes; assertions never fail |
| `net/tcp/connection` | socket, input and output buffer | `Start`, `Stop`, `Send`, read and write handlers | bytes arrive once, in order; one disconnect report |
| `net/tcp/server`, `connection_manager` | acceptor, `connections_` | `Listen`, `Stop`, `Boardcast`, accept handler | one accept loop; each connection is read and gets each broadcast once; its handlers find it alive |
| `adv/plugin_manager`, `plugin_loader` | loaded plugins, who uses whom, library handles | `Load`, `Unload` | a loaded plugin's dependencies are loaded; initialised once |
| `adv/env`, `object` | named objects, reference counts | `Insert`, `Remove`, `Get` | no object in use is destroyed |
| `adv/args` | cursor, parsed flags | `Parse` | flags get their values |
| `net/http/server`, `server/connection*` | acceptor, `connections_`, per connection a socket, a parser, `request_`, `reply_` | `Listen`, `Shutdown`, accept, read and write handlers | no connection is lost or left over; a reply is whole; calls return |
| `net/http/server/request_parser`, `serve_mux` | parser state, handler table | `consume`, `parse`, `UrlDecode`, `set_handler`, `ServeHttp` | accepts its grammar; the longest prefix serves |
| `net/http/client`, `request`, `response`, `url`, `form_data` | one blocking socket per call | `Do`, `ReadResponse`, `Url`, `Encode`, `Parse` | what a client writes the server understands |
| `base` | `Status` representation, strings, paths, log | pure helpers and system calls | reference definitions; `Status` is a value |

Threads and callbacks: user threads call into the bus and into TCP; every socket
callback (connection, receive, write completion) runs on the thread that runs the
asio `io_context`. The two meet in `waitings_`, in the `Result` of a call and in
a connection's output buffer; so do `Stop`, `Shutdown` and `Boardcast` with the
accept handlers and the connection sets. Processes meet in the bus server, over connections
that break at any time.

Hard parts: the window between test and sleep in `Result::Wait` and between the
two halves of `WeakUp`; a request whose response overtakes its registration;
responses that are late, repeated or lost; names that two processes share after
a restart; messages cut into arbitrary chunks; writes that take part of the
buffer and overlap; handlers still queued when a connection is stopped; plugin
operations that hold their lock only part of the time; a server shut down by one
thread while another accepts, serves and broadcasts; lookups without the lock
that removals hold; and, in the pure parts, cursors and searches at the ends of
their text. `PROJECT.json` lists each
as a hazard at its line.

## Modules

| module | models | one step is |
|---|---|---|
| `BusInvoker` | `adv/bus/invoker`, `Result` | a piece of `Call`/`ACall` or `HandleResponseMessage`/`WeakUp` between two points where other threads interfere |
| `Bus`, `MCBus` | `adv/bus/client`, `server`, `router`, `service` | one operation of a client, or one whole message handler of a client or of the server |
| `Buffer` | `net/buffer.h` | one member function |
| `ByteQueue` | nothing in the code: the abstract specification of `Buffer`, a FIFO queue of bytes per object | append, take from the front, take back from the end, swap |
| `BusStream` | `adv/bus/context`, `msg.cc`, the receive callbacks | sending a message, or receiving a chunk with its one call of `Parse` |
| `TcpConn` | `net/tcp/connection` | one handler on the io thread, a `Send`, a part of a user thread's `Stop`, or something the socket does |
| `PluginManager`, `MCPluginManager` | `adv/plugin_manager`, `plugin_loader` | a piece of `Load` or `Unload` that no other thread can interrupt |
| `TcpServer` | `net/tcp/server`, `connection_manager`, connections reduced to their life | a handler or the part of one up to where a user thread can interfere, one `Send` of a broadcast, a user call |
| `HttpServer`, `MCHttpServer` | `net/http/server`, `server/connection`, `connection_manager`, `client` | a handler or its half, a step of `Shutdown`, a step of a client, something a socket does |
| `Text`, `HttpText`, `StatusRep` | pure operators: strings, paths, command lines; URL, request text and parser, forms, routing; who owns a `Status`' array | |
| `TextChecks`, `MCText` | reference definitions for these, and inputs that grow step by step | one more character, argument, pattern or operation |
| `ObjectEnv`, `MCObjectEnv` | `adv/env` (objects), `adv/object` | a half of `Insert`, `Remove` or `Get`, a reference taken or released |
| `BusPeerProofs` | the theorems about `BusInvoker` and about `BusStream`, whose `StreamSpec` and `StreamTypeOK` are named so that both modules can be extended | |
| the other `*Proofs` | the theorems about the module they are named after | |

How the state corresponds to the code:

- **BusInvoker.** `waitings` is `waitings_` with `nullptr` where there is no
  entry; a caller `c` stands for a thread and for the address of its `Result`,
  which consecutive calls reuse as consecutive stack frames do. `alive[c]` says
  whether the object at that address exists. A payload is the id of the request
  it answers. `PackRequest`, `RegisterResult`, `WriteRequest`, `Wait`, `CopyOut`
  are the way of a `Call`; `FindResult`, `FillResult`, `SetOk`, `NotifyAll` that
  of a response. Touching a destroyed `Result` is undefined behaviour: the step
  goes as usual or `CorruptMemory` ends the io thread. The peer is the rest of the
  bus: it answers in any order, twice when the transport repeated a request, or
  not at all, as `server.cc` drops what has no route; and the transport may break.
- **Bus.** A client is one `BusClient` and the server's connection to it. A
  connection is two FIFO channels of whole messages, `c_out` and `s_out` what may
  be left in the output buffer of either end. A `Send` that overlaps the writing of
  an earlier one starts a second write of what is in the buffer
  (`TcpConn::Send`): the messages in it are written again, its own once, twice or
  not at all (`Rewritten`). `MaxOverlaps` bounds how often that happens. `router` is
  `BusRouter::connections_`. A process that restarts is a second client with the
  same name, whose ids start from 1 again. The invoker is reduced to its set of
  outstanding ids; its threads are in `BusInvoker`. The fields `origin`, `asked`
  and `by` of a message are history for the properties and are never read by an
  operation.
- **Buffer.** The vector, `reader_index_` and `writer_index_` as a record;
  `MakeSpace` grows or moves exactly as the code decides. The assertions of the
  header are the invariant `AssertionsHold`.
- **BusStream.** A byte is its position in the stream, so the model need not
  build text: the parser reads a header only where one was written.
  `isServer` is fixed by `Init`: a client stops its transport on `kBad`, the
  server does not (`BusServer::Stop` is empty).
- **TcpConn.** A byte is its place in what `Send` was given. `ready` is the
  queue of handlers of the `io_context`; what the socket does with an operation
  is external. `Send` may move the bytes a waiting write points to.
- **PluginManager.** Each `Load` makes a numbered `Plugin` object, `hdr` says of
  which library; `refs` counts `dlopen` minus successful `dlclose`, `inits` counts
  `init` minus `exit`. `HeaderName` is the name in each library's header, which
  nothing compares with the name `Load` was given: the code looks up and opens the
  one, stores and closes under the other. A plugin is `WellNamed` if its header has
  its library's name and no other header does.
- **TcpServer.** `ready` is the queue of handlers, `accepted` the accept handler
  between its `is_open` test and its end, `todo` the part of `connections_` a
  broadcast has yet to visit. An insert under a user's walk is undefined
  behaviour: what is still visited is any set. Writes are whole here; partial and
  overlapping ones are in `TcpConn`.
- **HttpServer.** A request is a number of units up to the one at which the parser
  decides and a number behind it; a reply is a status line, a header block and its
  content. `busy` is the accept handler past its test, `shutdown` the place of
  `Shutdown` between `acceptor_.close()`, `StopAll` and `io_context_.stop()`.
  One peer is `http::Client`; the other may send part of its request and leave.
- **Text, HttpText.** A character is its code, a string a sequence, 0 stands for
  `npos`. The parser's states keep their names. **StatusRep.** An array knows how
  often it was deleted; a message is its length.
- **ObjectEnv.** `nref` is the count the code keeps, `owners` a history of who
  holds which reference, so that the count can be compared with something.

Some history variables let one specification carry both the unrestricted system
and what holds of a disciplined use of it: `serial` (`TcpConn`: every `Send` came
after the bytes before it were written; `PluginManager`: no operation began
during another), `overlaps` (`Bus`: how many Sends overlapped the writing of an
earlier one; `Serial` if none did), `lockstep` (`BusStream` and `Bus`: every message
was sent after the one before it on its connection was handled), `singly`
(`BusInvoker`: every message arrived with none unread before it), `unclosed`
(`PluginManager`: how often `dlclose` failed on a library), `raced` (`connections_` changed under a walk of it; a
`Get` overlapped an `Insert` or `Remove`), `late` (the acceptor was closed, or
connections were started, behind an accept handler's test) and `overlapped` (a
`Listen` before the aborted handler of the last one had run). No operation reads
them.

## Runs

| run | checks | bounds |
|---|---|---|
| `invoker` | a caller that always passes `out` gets its own answer, is never missed by its response, leaves no entry behind, and its `Result` is written only while alive and notified only with its answer in place; nobody sleeps through a notification; a response that has arrived, messages coming one by one, makes its call return | 2 callers, one of which may pass `out == NULL`, 3 calls, ids modulo 4 (the counter reaches its wrap) |
| `bus` | answers come from the service that was asked and reach the client that asked, once, also when overlapping Sends repeat and lose messages; while none have overlapped a call is on the bus once and a started client has a way back; its call of a provider the server knows returns unless a connection breaks or two messages share one | 3 clients, two of them with one name; 1 + 1 + 2 calls; 1 overlapping Send, anywhere |
| `buffer` | index order, assertions, and refinement of `ByteQueue` | 2 buffers, vectors up to 5, runs of up to 3 bytes: enough to grow, to move and to swap a moved with a grown buffer |
| `stream` | order, no skipped message, parser in step, a client stops at a bad message, lockstep messages are all handled | 4 messages, bodies of 1 or 3, headers of 2 bytes, chunks of up to 5: chunks end inside headers, inside bodies and span messages |
| `tcp` | bytes arrive once and in order, none is left behind, one disconnect report, serial bytes are written | 3 bytes, 3 handlers ready: partial writes, a second write, stop and reset around them |
| `tcp_server` | one accept under way, at most one connection started after `Stop`, write handlers find their connection, open connections are read, broadcasts reach each connection once and in order, what ends the io thread | 2 connections, 2 calls of `Listen`, one broadcast by a user thread and one by the receive callback: a second accept loop, a race and a write to a connection that ended all happen |
| `http` | no connection lost or left over, `Shutdown` stops all, an Ok reply is whole, the body of a one-read request arrives, calls return | 2 connections (a client with a body, a peer that sends a malformed request and may leave), replies of up to 1 unit of content, 1 failure: header and body split over reads, replies over writes |
| `text` | the operators against their references, escapes and several command lines in a row among them | all inputs up to 3 to 7 symbols beyond seeds that reach each state of the parser and each part of a URL, over alphabets with one symbol of each kind the code tells apart; 3 operations on 2 `Status` objects |
| `env` | no use after delete, the count is the references held, no reference of the table is lost | 3 threads, 3 objects, two with one name |
| `plugin` | dependencies stay loaded, loaded means initialised once, only a failed `dlclose` leaves a library open, no call into a closed library | 2 threads, 5 plugins (one with a bad header, two with each other's name), 3 `Plugin` objects |
| `invoker_disconnect`, `bus_stale_route` | what a document says, against what the code does: see below | as above or smaller |

A property of a run that is a conjunction has its parts as definitions of their
own in front of it (`ConnsAreServed` is `WritersFindTheirConn`, `OpenConnIsRead`
and `OnlyTheseAreFatal`), each with what it says of the code.

The bounds are constants (`MaxCalls`, `Quota`, `MaxOverlaps`, `MaxMsgs`, `MaxBytes`, `MaxReady`,
`MaxLoads`, `MaxLen`, `MaxSize`, `MaxConns`, `MaxCasts`,
`MaxListens`, `MaxContent`, `MaxFailures`, `MaxGrowth`) used in guards only. Where there is a proof it
holds for all their values. Deadlock is checked in `invoker`, `buffer` and
`plugin`. In the others a system that has used up its bounded calls, messages,
connections or inputs, or whose connections are all closed, really stops.

Fairness. `invoker`: a thread that can run runs (weak), the io thread finishes a
response it began (weak), and it reads a response that arrived alone (weak, while
`singly`). Nothing is assumed of the peer, which may drop a request, nor of a
message that arrives behind an unread one: the receive callbacks call `Parse` once
(client.cc:75, server.cc:48), so it can stay in the buffer. `bus`: both ends of a
connection handle what has arrived (weak, while `lockstep`), for the same reason.
`stream`: TCP delivers what was written (weak). `tcp`: the io thread runs what is
ready and a peer that has not reset keeps reading (weak). `http`: sockets deliver
data and ends, the io thread runs what is ready, a client that has connected goes
on (weak for each connection). No fairness is put on
users: nobody has to call, send or stop.

## Proofs

All theorems are for every value of the constants, under the `ASSUME`s of the
modules, which TLC evaluates in the runs.

- **BusPeerProofs**, about `BusInvoker`. `TypeCorrect`; `NoLostWakeup` (invariant
  `WakeInv`: a `Result` exists exactly while its call runs, which fixes whose
  condition `NotifyAll` wakes); `OwnAnswer`, `ResponseCannotMiss`,
  `NoStaleWakeUp` from `AnswerInv`. The last three are not inductive: they need
  that running calls have distinct ids, that the counter is ahead of every id in
  use (here the assumption `MaxCalls < IdSpace` enters: fewer calls than ids),
  that an unwritten request has no response, that the io thread's `Result`
  belongs to the call its response answers, and that between `SetOk` and
  `NotifyAll` that call has its answer or has returned it while a next one at the
  same address is unanswered. They hold for each caller that
  always passes `out`, whatever the other callers do.
- **BusPeerProofs**, about `BusStream`. `StreamTypeCorrect`; `StaysInStep` from
  `StreamInv` (messages lie one after the other; the parser stands behind a message
  or behind its header), then
  `InOrderOnce` from `OrderInv` (of the messages parsed to the end, all good ones
  are handled, in order) and `ClientInv` (a client that has not stopped has parsed
  good messages only).
- **BusProofs.** `TypeCorrect` and `NoCrossTalk` from `BusInv`:
  routes lead to clients of that name, and each message in flight satisfies
  what its channel promises (`FromClient`, `ToClient`). That the service
  asked is the one that answers needs no assumption on names; that the answer is
  to the client's own request is about clients whose name is their own.
  That a call is answered once (`AnsweredInv`) needs that ids are given out once
  and that an answered call does not wait any more, so that of repeated responses
  one is taken. All this holds whatever overlapping Sends write (`RewrittenFrom`:
  nothing but messages that were sent).
  `CallsAreSingle` from `CopyInv`, while no Sends have overlapped: `AtMostOneCopy`
  alone is not inductive, because a new call could reuse the id of one in flight;
  so every message in flight has an id the invoker has given out, and its caller is
  still waiting for it. Every handler then only *moves* a call from one channel to
  another (`Moves`), which is proved once for all of them. `WayBackExists` from
  `RouteInv`, while no Sends have overlapped: a client that has called `Start` and
  is connected is in the router, or its registration is still in its channel and
  everything it asked later is behind it, unread; so the server cannot see a
  request whose answer it could not deliver. This uses that channels are FIFO, and
  speaks of clients whose name is their own.
- **BufferProofs.** `TypeCorrect`, `NoAssertionFails` (index order included) from
  `Ordered`, and `BufferIsQueue`: every member function maps to a step of
  `ByteQueue` under `Content`. Lemmas say what each operator does to the content.
- **TcpConnProofs.** `OneReport` from `ReportInv`: until a user thread is inside
  `Stop`, closing, reporting and changing `state_` happen together. `TypeCorrect`
  from `TypeInv`: that the report counter stays in its range needs that a closed
  socket and a user's `Stop` account for one report each, and that the indices do
  needs that no write reaches past what was sent. `BytesAreKept` from `ByteInv`:
  while Sends are serial there is one write under way in all (posted, at the
  socket, or finished), it starts at the head of the buffer, and the handler that
  is ready will retire exactly the bytes that are on the wire. The property itself
  does not say what a finished write will do to `head`, hence the strengthening.
- **TcpServerProofs.** `TypeCorrect`, `LoopIsSingle`, `ConnectionsServed` and
  `BroadcastsReach` from `ServerInv`, one lemma per action, over lemmas that say what
  appending to and taking from the queue `ready` does to the number of handlers of a
  kind and to the reads in it. `AcceptInv`: each `Listen` accounts for one accept at
  most, waiting, ready or half handled, and only a listening acceptor has accepts
  that wait; that a second connection cannot start late needs that the count of
  late ones is 0 while a handler is past its test. `ConnInv`: nothing leaves
  `connections_`, so a handler, a walk and a read belong to a connection in it; a
  connection has a read waiting, or its handler ready, or its callback running, never
  two of these and none once `Stop` has closed the socket; and a failed write has its
  bytes in a buffer whose socket is not open. The last part decides what makes
  `shutdown` throw. `CastInv`: a connection a walk has yet to visit joined before
  that broadcast, one not started was given nothing, and the broadcasts made plus the
  reads with data that will make one are within their bound.
- **ObjectEnvProofs.** `TypeCorrect`. `TableReferenceKept` from `TableInv`, whatever
  runs at the same time: an `Insert` between its halves has counted and found the
  name free, a `Remove` between its halves has released and not yet erased, and all
  else that is listed is counted. `LivesWhileOwned` from `CountInv`: the count is
  the number of owners, and until a `Get` overlaps an `Insert` or `Remove` nobody
  holds the mutex while a `Get` has the pointer it will reference. `Threads` is
  assumed finite: the count is a cardinality.
- **PluginManagerProofs.** `TypeCorrect` and `LibraryStaysOpen` from `CountInv`, for
  all overlaps: the count of `init` covers every thread that will still publish or
  exit, plus the entry of `mods_`, whatever name the header has; `dlopen`'s count
  covers those that will call into the library or close it, for well-named plugins
  (another header could close the library). Equality would be wrong (racing loads
  and failed `dlclose`s leave counts too high); the inequality is what survives. It
  needs that a handle is one of an open library, and that `mods_` has each object
  under its header's name. `LoadedStaysUsable` from `PluginInv`, while operations
  have not overlapped: one thread at a time is inside an operation, the counts of a
  well-named plugin are exact but for the `dlclose`s that failed (`unclosed`),
  each object is in `mods_` under one name, and a `Load` under way is linked to all
  dependencies behind it. Assumed: finitely many threads, at least one name;
  nothing of what the headers say.
- **HttpServerProofs.** `TypeCorrect`, `ManagerIsExact`, `MessagesWhole` from
  `HttpInv`. The first two parts need where a connection is before the manager has
  it (`OnItsWay`: accepted, open, untouched) and what `Shutdown` has done to the
  accept loop (`Closing`). That an Ok reply is whole needs, for each connection
  (`ConnOK`), that it reads until it has a reply and writes afterwards, so that one
  handler at most can close it, and that before `Shutdown` a client sees the end
  behind the whole reply or before any of it (`ClosedInOrder`). What an operation
  does to the one connection it touches is proved for that record alone; the frame
  lemmas say that the rest stays.

Each of these inductive invariants was an invariant of a TLC run on the bounds
above before it was proved; that of `TcpServer` also with three calls of `Listen`,
where two accept loops run at once and `MaxConns` has to bound the start of a
connection as well as the accepts.

Only model-checked: all liveness (`ArrivedAnswerReturns`, `KnownProviderAnswers`,
`LockstepIsHandled`, `SentBytesAreWritten`, `EveryCallReturns`), which this prover
cannot do; and what the recursive and folding operators of `Text`, `HttpText` and
`StatusRep` compute (the four properties of `TextChecks`), which needs induction
over data. Every other property of a passing run is a theorem.

## Departures met while modelling

With a run that shows them (`findings` in `PROJECT.json`):

- `invoker_disconnect`: `docs/bus.drawio` wants waiters woken when the connection
  is lost; `BusClient::OnTransportConnection` (client.cc:65) does nothing.
- `bus_stale_route`: the server removes the route of `ctx->name()`
  (server.cc:37), a name that is never set.

Seen in the same models, without a run of their own; the passing properties are
stated for the callers and orders that avoid them:

- `Call` with `out == NULL` (invoker.cc:12; `BusClient::Start`, `AddMethod`)
  leaves the address of a dead `Result` in `waitings_`. Hence `NullOut`.
- `WeakUp` notifies after releasing the mutex (method.h:54): the woken caller may
  already have destroyed the condition variable.
- A request for an unknown provider is dropped (server.cc:81); the reply is in a
  comment. Hence `KnownProviderAnswers` asks for a route.
- The server handles the body behind a wrong magic number (server.cc:51,
  context.cc:20). Hence `NothingHandledAfterBad` speaks of clients.
- A `Send` before the last bytes were written starts a second write of them
  (connection.cc:28); bytes are then sent twice or lost. Hence `serial` and, on the
  bus, where `Start` followed by `Call` is such a pair, `Serial`.
- A client that comes back under its old name counts its ids from 1 again and can
  be woken by the answer to its predecessor's request (router.cc:9). Hence
  `HasOwnName`.
- `Stop` on a user thread makes the pending read fail on the io thread, which calls
  `Stop` between the user's `shutdown` and its report (connection.cc:18): the
  callback hears of the disconnect twice. Hence `DisconnectReportedOnce` speaks of
  the time before.
- Two threads that load one plugin both initialise it (plugin_manager.cc:52), and
  a dependency can be unloaded while a plugin that needs it is being loaded
  (plugin_manager.cc:123). Hence `serial` in `PluginManager`.
- One `Parse` per receive callback (server.cc:48, client.cc:75): the second of two
  messages in one chunk waits for more bytes. Hence `lockstep` and `singly`.
- `Load` looks for its argument in `mods_` (plugin_manager.cc:52) and stores under
  `hdr->name` (:70), which `VerifyPluginHeader` does not compare with it: a library
  whose header has another name is opened and initialised by every `Load`, although
  `plugin_test.cc` ("case4: duplicated name") wants a second one refused, and
  `Unload` closes the library of that name (:99). Hence `WellNamed`.
- A plugin whose `Load` failed stays in the `sources` of its dependencies
  (plugin_manager.cc:63), against the comment there ("What plugins depend on me?"),
  and they can not be unloaded any more.
- `loader_->Unload` can fail and nobody looks (plugin_manager.cc:64, :99): the
  library stays open with its handle. Hence `unclosed`.
- A line with an open quote is refused before `values_` is cleared (args.cc:273):
  the values of the line before stay, while after any other error there are none.
  `ValuesOfOneLine` says which.
- Handlers queued before `TcpConn::Stop` fail and call it again, and
  `socket_.shutdown` throws (connection.cc:17) out of the io thread. So does a
  failed accept (`ec` is not looked at, tcp/server.cc:45), a reset, and a broadcast
  to a connection that has ended, because connections never leave `connections_`.
  `OnlyTheseAreFatal` says that nothing else does.
- `Stop`, then `Listen` before the aborted accept handler has run: it finds the
  acceptor open and starts a second accept loop (tcp/server.cc:41). Hence
  `overlapped`.
- The HTTP server never reads past the read that ended the header
  (request_parser.h:34): a body in a later segment is lost. Hence `BodyOfOneRead`.
- `Client::ReadResponse` takes a reply cut by `Shutdown` for a complete one
  (client.cc:138). Hence `OkIsComplete` excludes `Shutdown`.
- `Shutdown` walks `connections_` on its caller's thread (server.cc:32) while the
  io thread changes it. Hence `raced`.
- `Request::to_buffers` (request.cc:37) does not write the headers that
  `set_header` stored, `Content-Type` among them.
- A `Url` without a colon is read behind its end (url.cc:34).
- A client URL without a port asks the resolver for a service named like the host
  (client.cc:75: `npos > 0`).
- `StrTrim` leaves a text of nothing but blanks as it is (str_util.cc:107), although
  str_util.h:25 says that it removes the blanks on both sides. Hence
  `TrimmedAtBothEnds` speaks of the other texts.
- An empty quoted argument ends the command line (args.cc:93).
- status.cc:401 promises a NUL behind the message; neither the constructor
  (status.cc:343) nor `CopyState` puts one there.
- `ObjectEnv::Get` does not take `mutex_` (env.cc:42): a `Remove` at the same time
  deletes the object under it. Hence `raced`. `GlobalEnv::Release` (env.cc:111)
  does not release what the table still holds.

## Not modelled

The JSON text of messages and the parameters (nlohmann json), what a user's
method or plugin computes, addresses as text, log output, file serving, the
destructors of manager and loader, the unfinished `net/io` event loop, `net2`
(linked by nothing), HTML rendering, operating-system wrappers, the `todo`
example and third-party code, which is most of the lines under `src/cppboot`
(fmt and json alone have 40,000). `TcpClient` forwards to `TcpConn` and
`StringEnv` is one map operation under one lock: nothing in them takes more than
one step. `PROJECT.json` gives the reason per component.

## Plan

Done: the calling side of the bus, the bus, its framing, the buffer and a TCP
connection under it, the TCP server over several connections, the HTTP server
with its clients, the text of HTTP and the string, path and argument functions,
`Status`, the object environment, the plugin manager.

What remains worth modelling is small: the header list of an HTTP response, the
files a `FileServer` caches, and the `todo` example's load and save.

Proved: every invariant and the refinement that a passing run checks, but for the
pure operators. Left to TLC are these and liveness (see Proofs).
