# Specifications of Lilya

TLA+ specifications of [Lilya](https://lilya.dev), an ASGI toolkit and framework, with TLC
configurations that check them on small instances and TLAPS proofs of theorems about them.
Paths like `apps.py:589` are relative to `src/lilya/`.

| Read this | for |
|---|---|
| 1 Inventory | the parts of the system, their state, how they interact, what is hard about them |
| 2 Modules | which module models what, and how its actions correspond to the code |
| 3 Runs | what TLC checks, the bounds, the fairness |
| 4 Proofs | what is proved, from which assumptions, along which argument |
| 5 Divergences | where the code does not do what a doc, a comment or a test says |
| 6 Limits | what is only model-checked, what is not modelled |
| 7 Plan | what comes next and in which order |

How to run it: `tlc -config MCRouting.cfg MCRouting`, and so on for each configuration;
`tlapm RoutingProofs.tla`, and so on for each `*Proofs` module.

## 1 Inventory

An application is a stack of ASGI callables `app(scope, receive, send)`, called once for each
connection, many connections at a time on one event loop. Almost everything that is hard lies in
**one connection**: user code (hooks, middleware, handlers, dependencies, background tasks) may
fail, send or receive anywhere, layers around it keep flags about what was already sent, and in
several places a connection is served by several tasks. A few objects are **shared by
connections**: broadcast channels, dependency scopes, caches, the lifespan.

### The core

**Routing** (`routing/router.py`, `path.py`, `include.py`, `datastructures.py`).
*State:* the position in the list of routes of each router in progress (`BaseRouter.app` is
re-entered by each `Include`), the partial matches it has collected, and one
`SendReceiveSniffer` per router that remembers the last message received, can be armed to repeat
it, and knows whether something was sent. *Operations:* match, dispatch, fall-through
(`ContinueRouting`, `PassPartialMatches`, both `BaseException`s), slash redirect, 404 and 405.
*Hard:* sniffers nest, each with its own idea of what was read and sent; a fast path for routers
with a single route has none. *Correct when:* one answer per request; no endpoint runs after it;
no matching endpoint is passed over; no endpoint receives a chunk of the body twice or out of order.

**Request cycle** (`apps.py`, `middleware/server_error.py`, `middleware/exceptions.py`,
`middleware/lilya_exception.py`, `_internal/_exception_handlers.py`, `_internal/_responses.py`,
`routing/base.py`, `path.py`, `include.py`). *State:* the exception in flight and a
`response_started` flag in each layer that may answer it. *Operations:* hooks before and after, the
call inwards, the response, the handlers of application, Include and Path, the background task.
*Hard:* any user code may raise before, during and after the response; up to five layers may answer;
a shortcut (`fast_http`) skips layers. *Correct when:* the server sees one response that is
completed unless an exception comes out; an exception somebody handles does not come out; one
nobody handles does; the application's error handler hears of each that comes out.

**SSE channels** (`contrib/sse/channels.py`). *State:* the set of subscribers (a zero-buffer memory
stream each) and a lock; every listener and every broadcasting task is a task of its own.
*Hard:* a broadcast holds the lock while it waits for each listener; listeners come, time out for a
heartbeat and leave in the middle. *Correct when:* all listeners see one order, a broadcast that
returns reached everyone, nobody waits for ever.

**Event streams** (`responses.py`, `EventStreamResponse`). *State:* a task group of four tasks (events,
pings, the wait for the disconnect, a task of the application), the flag `active`, a send lock, a
cancel scope. *Hard:* each task may end the others, at any await, with messages half sent.
*Correct when:* the response starts once and first, its body is ended once and last, a disconnect
ends it all.

**WebSockets** (`websockets.py`, `routing/websocket.py`, `routing/base.py`,
`_internal/_responses.py`, `middleware/exceptions.py`, the hooks of `routing/include.py` and `routing/router.py`).
*State:* `client_state`, `application_state` and
cleanup callbacks of each `WebSocket` object: two objects for one connection, one for dependencies,
one for the endpoint. *Hard:* tasks of an endpoint that use one object at the same time; objects
and layers that send without knowing of each other, and hooks between the layers. *Correct when:* what one object sends is in
protocol order, the layers say only a close after it and each at most one, a client that is there gets an answer,
callbacks run once and in order.

**Reverse proxy** (`contrib/proxy/relay.py`). *State:* attempts, the iterator over the client's body that
they share, what was sent already; two tasks that pump the messages of a WebSocket. *Hard:* retries
and timeouts after part of a body or of a response went out; either pump task fails while the
other works. *Correct when:* one response, the whole body, all the attempts before an error; a WebSocket
client is told that it ends, and whether something failed.

**Request body** (`requests.py`, `middleware/csrf.py`, `middleware/request_context.py`, `StreamingResponse` in
`responses.py`). *State:* what the server has yet to give, a stored message, `_stream_consumed`, `_body` and `_form` in each
`Request` object, the body in the scope, the replay of the CSRF middleware. *Hard:* middlewares, dependencies, the handler and exception handlers make an
object each over one `receive`; a streaming response waits on it while its iterator reads. *Correct when:* a chunk is lost only to who
took it, all objects have one body, a connection is answered.

**Dependencies** (`dependencies.py`, `_internal/_scopes.py`). *State:* in the providers, which belong to the routes, a cached
result and the arguments that bodies provided; the instances of the scopes; generators to close with each
request. *Hard:* requests that resolve the same providers interleave at each await. *Correct when:* one instance for
an application, none of another request otherwise, nothing closed while it is used.

**Result cache** (`decorators.py`, `caches/memory.py`, `caches/redis.py`). *State:* the entries of a backend, one lock. *Hard:* callers on
the event loop and on threads, cached functions that call each other, an invalidation or an expiry between two steps of a call.
*Correct when:* no value from before an invalidation is served after it, nobody gets the result of other
arguments, nobody waits for himself.

**Lifespan** (`lifecycle.py`, `apps.py`, `routing/router.py`, `_internal/_events.py`). *State:* lists of handlers in a registry, in the
router and in the context that was made of them; the phase. *Hard:* hooks are merged twice, may be added at any time,
raise, and the server cancels. *Correct when:* hooks run once and in order, nothing is stopped that was not
started, the server hears how it went.

**Files and byte ranges** (`responses.py`, `FileResponse`; `ranges.py`). *State:* headers of the response object, which may answer
several requests; the ranges left and the position in the file. *Hard:* header parsing with merged, overlapping and open
ranges; a file that changes between stat, open and read. *Correct when:* the bytes that were asked for are
sent, as many as announced.

### Not modelled

Listed with their reasons in `PROJECT.json`: path compilation and transformers, form and multipart parsing, encoders,
settings (pure functions of strings and values); the middleware that decides on headers (CORS,
hosts, HTTPS); sessions, client addresses, security schemes; openapi, templates, introspection, the
command line; mail, schedulers and AI clients (I/O through other libraries). `SSEChannelManager` is
three dictionary operations under a lock. Most of the repository's lines are of these kinds, or of the parts of a modelled file
that convert values and keep no state.

### How the parts interact

```
server ── lifespan ── Lilya, Router                                   Lifespan
server ── scope, receive, send
  ├ ServerErrorMiddleware > middleware > ExceptionMiddleware          RequestCycle
  │   ├ CSRF, request context: receive the body first                 RequestBody
  │   └ Router ── sniffer ─ Include ── Router ── sniffer ─ Path       Routing
  │       └ hooks, handlers of Include and Path, endpoint             RequestCycle
  │           ├ Provide, Depends: what the endpoint is given          Dependencies
  │           ├ Request objects: body, form, stream                   RequestBody
  │           ├ cached functions, shared by requests and threads      ResultCache
  │           ├ Response / background task                            RequestCycle
  │           ├ StreamingResponse, waiting for the client             RequestBody
  │           ├ FileResponse                                          FileResponse
  │           ├ EventStreamResponse (task group)                      EventStream
  │           │    └ SSEChannel.listen  <── SSEChannel.broadcast      SSEChannel
  │           └ WebSocket objects, several tasks                      WebSocketSession
  └ Relay as an ASGI application of its own                           Relay
```

`Routing` and `RequestCycle` look at the same code from two sides: the former chooses among routes and
lets an endpoint end in the ways routing distinguishes, the latter fixes one route and lets
everything around it fail. What they share is an interface: an exception that is not one of the
routing signals passes through the routers unchanged (`Routing.EndpointRaise`), which is what
`RequestCycle` assumes of its layer `router`. `RequestCycle` is shown to implement `AsgiResponse`, the
server's view of any application. The other modules are what an endpoint does: to `RequestCycle` each is user code
that returns, responds or raises. `RequestBody` composes four components in one module, as they share one `receive`.

## 2 Modules

| Module | models | proofs |
|---|---|---|
| `Routing` | one request through nested routers | `RoutingProofs` |
| `RequestCycle` | one request through the layers around an endpoint | `RequestCycleProofs` |
| `AsgiResponse` | abstract: what a server may rely on for one response | (refined by `RequestCycle`) |
| `SSEChannel` | a broadcast channel, its listeners and broadcasters | `SSEChannelProofs` |
| `EventStream` | the task group of one `EventStreamResponse` | `ResponseProofs`, first part |
| `WebSocketSession` | one WebSocket connection from router to layers | `WebSocketSessionProofs` |
| `Relay` | one connection through the reverse proxy | `RelayProofs` |
| `RequestBody` | everything that receives the body of a connection | `RequestCycleProofs`, second part |
| `Dependencies` | connections that resolve the same providers | `DependenciesProofs` |
| `ResultCache` | calls of cached functions, invalidations, a backend | `ApplicationProofs`, first part |
| `Lifespan` | hooks and handlers, their lists, one application's lifespans | `ApplicationProofs`, second part |
| `FileResponse` | the range header and the requests of a file response | `ResponseProofs`, second part |

Each has an `MC` module that gives the constants their values. Three proof modules are about two components each: what concerns
one request, the responses of several messages, the parts of an application that outlive a request. The two have
no name in common, and the second part of such a module uses nothing of the first. Operators commented *Mutant* are
plausible bugs of the operator below them; nothing uses them: they document that a property tells the bug from
the code.

Two conventions hold everywhere. A step of a module is what runs between two awaits at which another
task, the client or user code may act. And user code is a choice: a hook, a handler or an endpoint
may do anything the interface it is given allows, once per step.

**Routing.** `stack` holds a frame per `app()` in progress (its router, the next route, the partial matches),
`sniffer` the sniffer of each. `Skip`, `EnterEndpoint`, `EnterInclude` and `KeepPartial` are the cases of
the loop over the routes; `Receive*`, `EndpointSend`, `EndpointLeave`, `EndpointRaise` what an endpoint
does; `Resume`, `ContinueAfterAnswer`, `CollectPartials` the `except` branches; `RedirectSlash`,
`PassPartials`, `MethodNotAllowed` and `Default` what follows the loop. `match` and `slash` say which
routes match and are chosen in `Init`: regular expressions and path parameters are abstracted to them. A route is a
place in the tree (`Unfolded`): a Path in two lists is two routes, a router that is included twice is two
routers. `Below` is what a route leads to, through any number of Includes, and `Matched` what the request
matches that way.

**RequestCycle.** `layers` is the stack of this request, `at` the layer in control, `phase` whether it calls
inwards, has a return or an exception coming outwards, or produces a response. `started[i]` is the flag
of layer `i`, set by its wrapper of `send`. An application with one static Path is the stack
`dispatch, router, path, endpoint`, and `BaseLilya._dispatch` may go from the first to the third. Exceptions
have three kinds: HTTP exceptions, a class of the application, anything else. A 405 is an exception the
router raises. A child application shares its parent's kinds of handlers; debug pages are left out.

**SSEChannel.** A listener is `waiting` in `receive`, `busy` with what it got, or `closing`: its receive stream
closed, its send stream still registered, which is the window `broadcast` can fail in. A task is
`queued` for the lock, `owning` it, `sending` to one subscriber after another, or `blocked` in a send
until the listener comes back. `Give` is the hand-over of a zero-buffer stream, `Release` the hand-over
of a first-come first-served lock. A message is the number of its broadcast. The heartbeat
timeout (`Interrupt`) never loses a message, which is how a cancelled `receive` of anyio behaves.

**EventStream.** One variable per task says what it awaits. `SourceTimeout`, `SendExpired`, `SendTimeout` and
`SourceEnds` are the ways the body ends; `StreamCancelled`, `PingEnds`, `ListenerCancelled`,
`SenderCancelled` what the cancel scope does to each task. A lock that is acquired in an `except` or `finally`
clause is a point of cancellation: a cancelled stream sends no last body. `Ordered` says whether a task
group starts its tasks in order, which asyncio does and trio does not promise. Errors come out as an
exception group; the model says that one comes out.

**WebSocketSession.** `clientState` and `applicationState` are per object (`dependency`, `session`). A call of an
endpoint's task is split where it awaits: `Send`, `Close` and `Accept` change the state of the object, then give the message to
the server; `Receive` checks, waits, then changes the state (`Received`). `Leaves` is an exception that leaves the
endpoint, `Handler*` the handler that is looked up for it, `ClauseCloses` the `websocket.close` that
`WebSocketPath` and `Include` send past every object, `NotFound` the router's default. `phase` goes inwards and
outwards through the hooks of the outermost router (`RouterHooks`), of an Include with the Router it was given (`IncludeHooks`) and of the route
(`RouteHooks`): after a clause has closed it is in the phases `leaving` and `departing`, where the hooks around still run. Any hook may
raise (`HookFails`); `broken` remembers whose did. The clause of an Include is around its hooks; around the hooks of a router there is only the `ExceptionMiddleware` of
an application (`apps.py:104-126`), and around those of a bare router nothing. `site` is where the route is: in a bare router, an application, an Include of it.
Endpoints' tasks live in a task group: when the main one fails the others are cancelled.

**Relay.** `at` is the place in `_handle_http`, `_forward_to_upstream` or `_handle_websocket`. `taken` and
`body` are the iterator over the client's body, which lives as long as the request: a new `Attempt`
changes neither. `AttemptFails` may come anywhere in an attempt; `Again` is the condition that the
`except` clauses share. `down` and `up` are the two tasks of the pump; once one has `Failed` the other can only be cancelled, with the close of its `finally`
clause sent or not.

**RequestBody.** `op` is what a task is doing, `stored`, `consumed`, `own` and `form` the fields of each object, `shared` the body in
the scope, `replay` the CSRF middleware's `receive`. `Upstream` and `Source` say where an object's next message comes from: the
stored one, the context's object, the replay, the server. `Begin` is a call (`Stream`, `Cached`, `Sniff`, `Poll`), `Round` one message of its loop.
`loop` is the task that has the event loop; it keeps it until `Suspend`, which needs a message that is not
there: two receives whose messages are ready run without the other task in between. `Listen` is
`wait_for_disconnect`. The history variable `spent` says what took a chunk.

**Dependencies.** A connection has a `stack` of the providers it is resolving; a frame goes through `enter` (cache and scope are looked at),
`data` (the body is read), `nested` (its own dependencies) and `call` (the factory). `Want`, `Missing`, `Found` are the loop over what the
handler wants, `Taken` a hit, `Made` the end of a factory with what it stores. An instance is its number in `made`, which also has
what it was made of; `form` tells a value from a generator that nobody unwrapped. `cached`, `provided` and `shared` are the
state that providers share between requests.

**ResultCache.** `pc` is the place of a call between its awaits: `lock`, `get`, `compute`, `set`. The value of a function is the `version` of the data
it read. `Runs` is the thread rule: a plain function on the loop's thread lets no coroutine run. `BackendFails` has
the two reasons: `anyio.run` refuses to on a thread that runs a loop, and a remote backend may fail. `Key` is what
`generate_cache_key` tells apart: the qualified name without `<locals>`, which the closures of one factory share, the keyword arguments, and the
arguments without a first one that is taken for an instance (`Shortened`), be it the instance of a method, any object that has an
attribute of the function's name, or the first real argument of a bound method. An entry is decoded when it is read.

**Lifespan.** `Register`, `Make` and `Add` build the lists: `registry` of the hooks, `router` of the router, `context` of what it was passed. `AskStartup`,
`Run*`, `Fail*`, `Finish*` and `Report` are `Router.lifespan` around the context; `ListOf` tells a context made of
lists from one that reads the router's lists as they are. The history variable `there` has the startup handlers that
were there when the startup began, in the router's lists or as the enter part of its own lifespan; `Heeded` says which of them the context knows of. The server is the test client's. A cancellation is an
exception, which is how it reaches the code.

**FileResponse.** A range header is a sequence of definitions of a first and a last byte, either of which may be missing;
`InOrder` and `Ascending` are the two loops of `parse_range_value`, each a function of how many definitions or ranges it has taken: `Checked`
and `Cut` are their bodies, with sums and merges as the code makes them, and `Sorted` is the `list.sort()` in between. `Begin` is the stat, `Answer` the
choice between whole file, one part, several parts and 416, `EndHeaders` the first message, `BeginRange`, `SendChunk` and `Finish` the
body. `Position` is where a range is read from: `behind` has the last byte of the range before and the place the file was left at, and the file is positioned anew
only if the range does not begin with that byte. A response that fails before its `try` statement is `failed`, after that `broken`. `headers` are the response object's and outlive a request; `Change` rewrites or removes the file.

## 3 Runs

| Run | question | bounds | states |
|---|---|---|---|
| `routing` | one answer, nothing skipped, nothing read twice or lost | five trees, 2 messages | 110,606 |
| `cycle` | promises to the server, what comes out, who hears of it | five stacks, every set of handlers | 940,537 |
| `sse` | order, reach, end of broadcasts | 2 listeners, 2 tasks, 2 broadcasts | 90,048 |
| `eventstream` | form of the stream, end after a disconnect | 2 events, 3 pings | 25,131 |
| `websocket` | protocol order of two objects, two tasks, the layers and their hooks | 1 message waiting, 3 out, 2 callbacks | 5.0 million |
| `relay` | one response, whole body, told of the end, an end | 2 retries, 2 body messages, 1 chunk, 2 frames | 6,844 |
| `body` | what is lost, one body for all, an answer | 3 objects, 3 operations, 2 chunks | 113,110 |
| `dependencies` | sharing, isolation, arguments, closing | 2 connections, 11 providers, 13 scenarios | 15,266 |
| `cache` | fresh values, own values, one computation, an end | 10 scenarios of 2 or 3 actors, 1 change, 2 ticks | 28,145 |
| `lifespan` | order, nothing stopped unstarted, verdicts | 2 hooks, 4 handlers, 2 added, 2 lifespans | 122,800 |
| `files` | the bytes that were asked for, whatever happens to the file | 3 bytes, 2 ranges, all headers of 2 definitions | 263,284 |
| `dependencies_cached` | a documented promise of `use_cache` (expects a violation, see 5) | as `dependencies` | |

The type invariants (`TypeOK`) are no run's: those of nine modules are theorems (section 4); those of `RequestBody` and
`FileResponse` were checked with the same configurations, and what the proofs need of them is part of their
invariants (`BodyParts`, `FileShape`). So were the parts of
`MessagesRepeated`, `Surfacing` and `StreamShape`, which are conjunctions of named invariants.

**Why the bounds are enough.** *Routing:* the trees are a single Path (the fast path), three in a row, an
Include between two Paths, an Include in an Include, and an Include next to a router that is no sub-router; a second message is needed for
"once" to differ from "twice", and two levels of routers for two sniffers to disagree. *RequestCycle:* a request is one walk in
and one out; the stacks contain every kind of layer, each next to the ones it can meet. *SSEChannel:* two tasks
for the lock to be contended, two broadcasts for an order, two listeners for one to
leave while a task waits for the other; listeners come at any time. *EventStream:* an event before and one
after each interruption, pings before, between and after. *WebSocketSession:* an accept, a message and a close fit into
the wire, one message and the disconnect into the inbox, into which a message comes when the one before was received; the layers send beyond `MaxWire`. Hooks
raise what has a handler that closes, what has one that sends nothing, and what has none. *Relay:* a first attempt, one in
the middle and a last one; a body that is partly taken; a response that is partly relayed. *RequestBody:* the three objects are the
context's, through which the others receive, and two that share nothing else; a third operation can see what the second left of the
first; a body of two chunks can be partly taken. *Dependencies:* two connections are what it takes to
share an instance; the providers have every combination of scope, generator, cache, nested dependency
and body argument that the code tells apart. *ResultCache:* one change of the data gives an old and a new value; two calls and one invalidation or three calls
around one lock are the smallest groups in which one overtakes, waits for or hides another. *Lifespan:* a handler
of each origin and event, two of the ones it is made with for an order; a second lifespan sees what the first left. *FileResponse:* three bytes and
chunks of two: ranges may be apart, adjacent, overlapping or the same, the last chunk is short; definitions range over every
first and last byte up to one past the end. What is proved
(section 4) holds without any of the bounds.

**Deadlock** is checked in `routing`, `cycle`, `sse`, `eventstream` and `relay`. In the others the program may really stop: a task that receives after
the disconnect of its WebSocket, or a body that somebody else received, waits for a message the server never sends; a
cached function that calls another one waits for itself; and what each connection, call, lifespan or
request does comes to an end. There liveness properties say which of the stops are meant.

**Fairness.** Safety runs have none. `BroadcastEnds` (`SSEChannel`) assumes that a task that can go on goes on
(the event loop runs every ready task) and that a listener that has been given a message comes back for
another or leaves: a consumer that stops reading without leaving blocks the channel for all, as the lock is held while the broadcast waits; with this assumption the property says that nothing else does.
`DisconnectEnds` (`EventStream`) assumes only what the event loop and the cancel scope of a task group guarantee: the start of the tasks,
the cancellation of each, the disconnect handler's return and the join. There is no fairness for the source, for `send` or for
the application's task: they may wait for ever, and the response ends all the same. `Finishes`
(`Relay`) assumes that steps of the relay are taken: the HTTP client's timeouts bound what an upstream may take, a client sends its
body or leaves, an upstream answers the closing handshake (`close_timeout` is `None`, so
nothing else bounds it), and the server gives the disconnect after a close. `Answered` (`RequestBody`) assumes that the loop runs a task that can go
on, that handlers and iterators end, and that a client sends its body; it need not leave. `CallsEnd`
(`ResultCache`) assumes the same of calls and threads, and that functions return or raise; the data and the clock have no
fairness. `Answered` (`Lifespan`) assumes only that handlers return or raise. `FileResponse` has no liveness: its steps are a loop
over what is left of each range, bounded by the length announced, and `EndsOnce` says how it ends.

**Each property in a sentence** stands above its definition in the module.

## 4 Proofs

Every theorem is a statement about the specification of its module (`Spec`, `BodySpec`, `FileSpec`, `LifespanSpec`) for all values of
the constants that satisfy the `ASSUME` of the module: any routing trees, stacks of layers, sets of
listeners and tasks, providers, cached functions, handlers, and any bounds. Where the
property is not inductive the module's invariant adds what is missing; each invariant was checked by TLC first, and is
proved to hold initially, to be preserved by each action, and to imply the property. All the safety properties that the
runs check are theorems.

| Run | its safety properties, and the theorems that state them |
|---|---|
| `routing` | `OneAnswer` (`AnsweredOnce`), `NoDispatchAfterAnswer` (`AnswerIsFinal`), `NoRouteSkipped` (`NothingSkipped`), `MessagesRepeated` (`ReadsMakeSense`) |
| `cycle` | `KeepsAsgi` (`PromiseKept`), `Surfacing` (`RightOnesSurface`), `ErrorHandlerTold` (`HandlerHears`) |
| `sse` | `SameOrder` (`OneOrder`), `ReturnedReachedAll` (`NobodyMissed`), `NoneLeaked` (`NoLeak`) |
| `eventstream` | `StreamShape` (`ShapeKept`), `EndsCleanly` (`BodyEnded`) |
| `websocket` | `OwnOrder` (`EachInOrder`), `LayersLast` (`LayersCloseLast`), `CleanupInOrder` (`CallbacksInOrder`), `Answered` (`ClientAnswered`) |
| `relay` | `OneResponse` (`ResponseOnce`), `RequestWhole` (`BodyWhole`), `ToldTheEnd` (`CloseTold`) |
| `body` | `OneBody` (`BodiesAgree`), `NothingLost` (`ChunksAccounted`) |
| `dependencies` | `SharedOnce` (`InstancesAreShared`), `Isolation` (`RequestsAreApart`), `OwnBody` (`BodiesAreOwn`), `OpenWhileUsed` (`OpenUntilOver`) |
| `cache` | `SyncFresh` (`InvalidationLasts`), `HitIsOwn` (`ResultsAreOwn`), `SyncComputesOnce` (`ComputedOnce`) |
| `lifespan` | `Verdicts` (`ServerIsTold`), `ClosedWhatOpened` (`NothingClosedUnopened`), `AllInOrder` (`HandlersInOrder`) |
| `files` | `AsRequested` (`FilesAsRequested`), `NothingElse` (`FilesNothingElse`), `EndsOnce` (`FilesEnd`) |

`TypeCorrect` (also `CacheTypeCorrect`, `LifespanTypeCorrect`) is the type invariant. `SniffersAgree`, `FlagsAgree`, `GivesUpLate`, the parts of
`StreamShape` and `TriedOnce` are stated by theorems only: they are lemmas of what the runs check.

**Routing.** `AnswerInv` is the argument for one answer: while a router still walks its routes nothing was
sent; while an endpoint runs at most that endpoint has sent; a `ContinueRouting` that comes out may
follow an answer, a `PassPartialMatches` never does. The sniffers of all routers in progress see the same `send`, so they agree.
*Nothing skipped* (`SkipInv`): `WalkInv` says that each `app()` in progress was entered through the Include the one around it is at.
`PassedInv`: there is a set of routes that contains all the walk has passed, is closed under going
through an Include, and in which every endpoint that matches was tried. When the walk ends without an answer
it contains the main router's routes, and so all they lead to. An Include comes back without an answer in one way
only, `PassPartialMatches`, and that after all of its router's routes: here the theorem needs, as `NoRouteSkipped` does, that
every router but the outermost is a sub-router.
*Messages* (`MessageInv`): as routes are places, nothing of what is ahead was tried (`PlacesInv`), so no endpoint is dispatched
twice (`DispatchedOnce`) and a new one has received nothing (`UntriedInv`). The last message is held by sniffers, at most one of those
is to repeat it, and none once the endpoint in dispatch has received (`SnifferInv`). If all that were tried received no
more than the first message, the next to receive gets that message: the sniffer of a router that dispatched one of them is armed and
still in progress (`ReplayInv`).

**Request cycle.** `FlagsInv`: whatever
was sent has gone through every layer from the sender outwards, so their flags are set, except that the server error middleware does not see what it
sends itself. `StageInv`: how far the response is at each phase. Each step of the cycle is then a step of
`AsgiResponse` or a stutter. `lenient` is the exception the code makes necessary: handlers of an Include or
a Path answer whatever was sent (section 5).
*What comes out:* `ShapeInv` says what stacks look like and that nothing was raised on the way in; an exception only the error middleware
answers goes on as an exception until it is out (`UnexpectedInv`); one that the exception middleware has a
handler for is still inside that middleware, with nothing sent, or was answered there (`HandledInv`). *Who hears of it:* the outermost layer tells the
error handler before it lets an exception out (`TellsInv`), and it has told it at most once, at the end (`OnceInv`).

**SSE channel.** The lock is what order and reach rest on:
`LockInv` (one owner; who waits, waits once), so the message that is sent is the newest one and is newer than all its
receivers have (`SendInv`), and a listener from before it has it unless the task has yet to come to it (`ReachInv`). `NoneLeaked`
is inductive by itself: the step that closes a listener's send stream is the one that takes it out of the set.

**Event stream.** The place of the stream task says what has been sent:
nothing while it is new (`StartInv`, assuming `Ordered`), the last body only from its `finally` clause on, or in the clause for a timeout
(`OrderInv`, `OnceInv`); and the scope is cancelled only
after a disconnect, a failure of the application's task, or the last body (`EndInv`).

**WebSocket session.** `TaskInv`: tasks are at work only where dependencies, endpoint or handler run. `WireInv`: the state of a WebSocket
object tells what it has put on the wire, whichever tasks called it. `LayerInv`: the phase tells which layers may have spoken
(`SaidBefore`), and that the hooks between one that has and the next one have raised: this is the only way to a second close of the
layers. `CleanInv`: one task at most closes an object, and it has run the callbacks that have run.
`FailureInv`: what each layer knows of the exception it deals with; outside the route and the Include an exception has had its
answer (`Settled`), and one gets as far as the application only after a send failed, from a hook of the outermost router, or as the 404 for a path without a route.

**Relay.** `AttemptOK`: an attempt begins only when one is left. `BodyInv`: the iterator ends only when it has given everything or the
client has left. `ResponseInv`: nothing is on the wire before an upstream answers, unless one broke off. `CloseInv`: no close is sent
while the task that reads the upstream goes on, and the 1000 is when it ends of itself (`ClosedByPump`); the except clauses add a 1011 as the last message,
after that close only if a task of the pump failed (`ClosedAtLast`).

**Request body.** `SharedInv`: the body in the scope is there only when all was received, is not there while `body()` reads, and every
object that has a body has this one. It rests on `TaskInv` (one task reads at a time), `CsrfInv` (nothing was received before the middleware
is done, and it replays what it read), and `StoredInv`: a stored message that ends the body, with a part of it, is the body in the
scope. `SpentInv` says where each chunk is: with the server, to be replayed, stored in an object, in the scope, or taken, and by what.

**Dependencies.** What a connection holds was made for it, or came from a cache or a scope that allows it: `FrameInv` for
the providers in progress, `GotInv` for what the handler gets, `MadeInv` for what instances are made of, `ObjectInv` for the
objects that requests share. `FrameInv` and `MadeInv` say of arguments that the fields of the body win over what an earlier one left. `KeyInv`: an instance with the
key of another is newer than the call that made that one, as a frame past its look-up remembers that there was none. `CloseInv`: generators
are closed with their makers. The layer that wins is a maximum, which `MaxIsMember` gets from the least-number principle
(`WFMin`).

**Result cache.** `LockInv`: a synchronous call has the lock from its look-up to its store, a coroutine never. So nothing is deleted between
what it computes and what it stores (`HeldInv`), and what is stored or returned is no older than the last deletion (`StoreInv`, `FloorInv`,
`ResultInv`); a call that computes found nothing, and nothing has been stored since (`MissInv`). This holds for keys all of whose
calls are synchronous (`SyncKey`), as functions may share a key. What is stored under a key was computed by a call with that key (`StoreInv`): it is by a function of
the same name, with the same keyword arguments, and with the same arguments unless one of the calls left out its first.

**Lifespan.** `SentInv`: the phase, `completed` and `raising` say what the server was told. `OrderInv`: the lists in use have each
handler once, the required ones, and the hooks on the outside, though two objects merge them. `RanInv`: the first n of the one list and then the first m of the
other have run, all of the first if anything of the second has. Where a router was given nothing its list may grow
while it runs; for that case `OrderInv` and `RanInv` claim the order only. `ThereInv` covers it for what must run before anything is shut down: the startup
handlers that were there and that the context knows of stay in its list, and have all run once the context has been entered.

**File response.** `HeaderInv`: of the headers that requests share only the range matters, which the first partial answer sets.
`RequestEnd`: what each request has cleaned up, told the client and has left, at each phase. That is the end; what is sent takes three
steps more. *The header:* `ParsedMeans` says what `parse_range_value` returns for a header of any length: ranges of the file that cover just
the bytes the definitions mean, and where the order is enforced they are apart and their sizes add up. It is an induction along
each loop (`InOrderInv`, `AscendingInv`), and between the two `SortedOrders`: sorting keeps every range once, whatever `list.sort()` does with equals.
*The reads:* for the bytes m that are meant, the ranges left and the bytes sent, `Underway` says that both are among m,
`InRow` that they come in order and without overlap, `Exact` that nothing of m is missing, `Parting` that
each part begins behind a header. A chunk keeps the first two even if the file gives less than was asked for, and the other two
if it does not (`ReadUnderway`, `ReadInRow`, `ReadExact`, `ReadParting`). *The requests:* `DeliveryInv` has these hold of
each request that no other one has spoilt the headers for, as long as it is `OnItsWay`, and says what its headers
promise (`Promised`) and that they hold the length of the file until a part is answered (`LengthInv`). Where the order is enforced the next
range never begins where the one before ended (`Settled`), so that the file is positioned for it. Where it is not, a range may begin with the last byte of the one before, the
last byte of the file (`top`): then it reads nothing (`Spent`), and as long as the file has not changed the bytes still come in ascending order (`Steady`, `InStep`).

**What the proofs assume.** Beside types: that a route is a place (`PlacesAssumption`); that a handler registered for two
purposes is two handlers, and that there are finitely many (`LifespanAssumption`); that some layer has a provider for each parameter
wanted (`DependenciesAssumption`: without one, the lookup raises before anything is made); that `None` and its like are nobody's name. TLC
evaluates each of them.

**Model-checked only.** Liveness under fairness (`BroadcastEnds`, `DisconnectEnds`, `Finishes`, `CallsEnd`, `Answered` of `RequestBody` and
of `Lifespan`) and anything with ENABLED are beyond the proof system. So are RECURSIVE operators; no module has any. The library's
induction theorems take an operator as a parameter, which the provers cannot instantiate: where a proof follows a loop over data of any
length, it uses induction over a set of numbers (`Induction` in `ResponseProofs`), which follows from `WFMin`, and recursive functions
whose existence is proved along the loop (`InOrderLoop`, `AscendingLoop`). `CachePerRequest` is violated (section 5).

## 5 Divergences

One has a run that expects the violation; the counterexample is the scenario described.

| Run | what the source says | what the code does |
|---|---|---|
| `dependencies_cached` | `docs/en/docs/dependencies.md:47`: `use_cache` caches the result for the lifetime of a request | the result is kept in the `Provide` object of the route (`dependencies.py:187`): every later request gets the instance of the first |

Behaviour the models contain and whose exception a formula names, or that was a counterexample while the models were made:

*Routing and request cycle*
- `docs/en/docs/routing.md:543-544`, a message received once is repeated for the next handler: leaving an Include by `PassPartialMatches`
  (`routing/router.py:441-443`) does not arm the sniffer outside, and a message read inside is lost for the routes after the Include.
- The test client asserts one start of a response (`testclient/_internal/transport.py:359`): handlers of a Path or an
  Include answer without looking whether the response has started (`routing/base.py:153`); `KeepsAsgi` names this exception.
- `docs/en/docs/requests.md:395-400`, before and after hooks on every layer: an application whose only route is a static Path
  dispatches past its router's hooks (`apps.py:589`).
- The path parameters of a route that gave up stay in the scope of the next (`routing/router.py:253`); handlers of a route are
  called without `await` (`routing/base.py:161`): an asynchronous one never runs.

*Streams, WebSockets, proxy*
- `contrib/sse/channels.py:92-93`, disconnected subscribers are removed: a stream closed by its reader raises
  `BrokenResourceError`, which l.132 does not catch; the broadcast fails for the listeners after it.
- The test client asserts no body after the last (`transport.py:367`): a timeout while the source is waited for ends the body in the
  `except` clause and again in `finally` (`responses.py:786`, `812`); `FinalOnce` names it. A ping may follow the last body; where tasks of a
  group do not start in order (trio), one may precede the start.
- `docs/en/docs/contrib/proxy/relay.md:5-6`, streaming bodies are preserved while retrying: attempts share one iterator
  (`contrib/proxy/relay.py:247`), so that a retry forwards what is left of the body. A timeout while a response is relayed leads to a second
  start (`OneResponse` names it). When the retries of a retryable status are used up, l.271 reads the text of a response that was
  never read, and the client gets the application's error instead of the status (`StatusUnread`).
- An exception after the endpoint closed its WebSocket makes the route send one more close (`routing/base.py:176`). As the clause then returns
  (`routing/websocket.py:258-259`), the `after_request` hooks around it run (`routing/include.py:264-287`, `routing/router.py:654-671`): one that raises makes
  the Include, or the application, close a second and a third time; `LayersLast` names it.
- A WebSocket for an unknown path raises a 404 whose response is discarded, and the handshake is not answered; nor is it when a hook of the
  outermost router raises before anything was sent, as no clause that closes is around it (`Answered` names both).
- `contrib/proxy/relay.py:561-563` and 637-639 describe one close with a code that tells a failure: when a task of the pump fails, its `finally` clause closes with 1000 (l.665) and
  the `except` clause of the handler once more with 1011 (l.594-596); `ToldTheEnd` names it.
- Cleanup callbacks of a WebSocket run when `close()` is called, and not when the client or a layer ends
  the connection; `docs/en/docs/websockets.md:156` says when it is closed. `accept` after a received disconnect resets
  `client_state` (`websockets.py:114`), and the next `receive` waits for ever.

*Request body*
- `docs/en/docs/requests.md:223-224` announces an error when a stream is read twice: after a stream that was read in part, `body()` returns the rest.
- `stream()`, `form()` or `sniff()` of another object, after the body was received, waits until the client
  leaves: only `body()` looks into the scope (`requests.py:195`; `Starves`).
- `is_disconnected()` and `wait_for_disconnect` throw away parts of the body (`requests.py:357`, `responses.py:573`; `NothingLost` names both).
- The CSRF middleware's read loop does not end when the client leaves in the middle of a body (`middleware/csrf.py:119`), and a
  streaming response that waits on its replay gets empty messages without ever suspending (l.148; `Spins`).

*Dependencies*
- With `use_cache`, users of a generator after the first get the generator instead of what it yielded (`dependencies.py:312`).
- Arguments that a body provides stay in the provider (`dependencies.py:205`): a request whose body lacks the key gets the argument of an
  earlier one (`OwnBody` is about keys it has), and a provider with dependencies of its own fails for later
  requests. A body that is not an object makes the resolution raise.
- A WebSocket's dependencies are resolved with another object than the handler's, whose `close()` closes none of their generators (`docs/en/docs/dependencies.md:338`);
  a generator of scope APP or GLOBAL is closed with the request that made it.
- A generator of a `Depends` is closed at once (`dependencies.py:905`), though the docstring (l.881-885) leaves it to the scope;
  `tests/dependencies/test_depends_and_inject_integration.py:234-246` expects what the code does.

*Result cache*
- `decorators.py:147`, an entry without `ttl` never expires: it gets the default of the settings (l.169).
- Concurrent calls of a coroutine function all compute, as each makes a lock of its own (l.209); one that computed before an
  invalidation stores after it (l.218-221; `SyncFresh` is about plain functions).
- `cache.invalidate` on the event loop's thread deletes nothing and plain functions called there are never cached: `anyio.run` raises and the
  error is logged. The docstring's `cache.invalidate(get_user_data, user_id=42)` is given a function the class does not
  take, and keyword arguments have another key than positional ones.
- The key drops `<locals>` and has no identity (`decorators.py:94-102`): two closures of one factory share their entries, and a hit may be the
  other's value. A first argument is left out if it has an attribute of the function's name (decided for each call), and so is the first real argument of a bound
  method (l.113): calls that differ in it share an entry. `HitIsOwn` names both (`Name`, `Shortened`). `invalidate` with the bound method drops the real argument where the
  call dropped the instance, and misses the entry of the call.

*Lifespan*
- `docs/en/docs/lifecycle.md:24`, hooks are injected into every `Lilya` and `ChildLilya`: an application with a
  `lifespan` runs none, children's lifespans do not run, and a `Router` with handlers of its own runs none.
- Handlers that are added after construction are ignored when the application was made with any (`AllInOrder` is about those it was made
  with); otherwise an added shutdown handler runs after the hooks.
- What a context was made of excludes what is in the router's lists beside it: startup handlers that were added to an application or router made with any, or with
  a lifespan, never run, though it shuts down (`ClosedWhatOpened` names it with `Heeded`); nor do the hooks of a router with handlers of its own.
- A startup that fails stops nothing that was started; a shutdown handler that fails skips those after it.

*Files and ranges*
- `-n` means the last n+1 bytes (`ranges.py:24`; `tests/test_responses.py` agrees, HTTP says n).
- Where the order is not enforced (`docs_src/responses/customized_multi_range_file.py:20`), of a definition that overlaps one that reaches the end of the file
  the last byte is kept as a range of its own (`ranges.py:125`): the file is not positioned for it (`responses.py:1201`), it reads nothing, and one byte more is announced than sent. The
  size leaves out what is merged (l.128-135): `content-length` is too small. The documented override
  fails without a range header.
- `content-length` of several parts leaves out the headers between them (`responses.py:1104`). A response object keeps status, length and
  range of an earlier partial answer (`Alone` is the exception).
- A failed stat, a 416 and a failing first send come before the `try`: the cleanup handler does not run (`EndsOnce` says so). HEAD is answered without
  a body message. A file that shrinks after the stat gives fewer bytes than announced.

## 6 Limits

- **Content.** Headers, paths, bodies, codes and texts are abstracted to what a property tells apart.
- **Routing.** Matching is an input. Host routes are dispatched like Includes and left out. Two requests never share
  a sniffer, so one request is modelled.
- **RequestCycle.** An application nested in one that takes the short way of `fast_http` is left out: `dispatch` is an outermost layer.
  Building the stack from settings, debug pages, dependencies and permissions of routes are left
  out, and so is the order of background tasks, which is that of a list.
- **EventStream.** A `send` that raises is not modelled: servers drop messages for a client that is gone.
- **WebSocketSession.** Endpoints that are ASGI applications of their own, applications in an Include, subprotocols and JSON modes are left out, and so are middleware and
  permissions around a WebSocket and hooks that send something themselves;
  tasks of an endpoint are assumed to be in a task group. There is no liveness: endpoints decide when they end.
- **Relay.** The HTTP client is started before and closed after. An upstream answers when it has got the
  request: `RequestWhole` is about upstreams that took the body for complete. Cancellation of the
  whole connection by the server is left out.
- **RequestBody.** Parsing is left out; a form is the body it was parsed from. The iterator of a streaming response is the only task beside the handler's.
- **Dependencies.** `Resolve` and `Security` (a second resolver without scopes or caches) and overrides of `Depends` are left out. A factory
  raises before it made anything.
- **ResultCache.** `RedisCache` is a service that answers or fails; its clients and its `sync_` methods are left out.
- **Lifespan.** A lifespan of the user whose exit swallows an exception (`router.py:320-341`) is not modelled. `clear()`, which tests use, is left out, and so is what several workers of a server share: nothing.
- **FileResponse.** Validators, media types and `StaticFiles`, which makes a response for each request, are left out. Bytes are
  positions: a file that is rewritten has other bytes at the same positions.
- **anyio, the server, httpx, websockets, the file system** are modelled from how the code uses them and marked external in the map.

## 7 Plan

Done, in the order of importance: `Routing`, `RequestCycle` (with `AsgiResponse`), `SSEChannel`, `EventStream`,
`WebSocketSession`, `Relay`; then `RequestBody`, `Dependencies`, `ResultCache`, `Lifespan`, `FileResponse`; and the proofs of
all their safety properties. What is next:

1. An abstract channel that `SSEChannel` implements, and an abstract body for `RequestBody`: the refinements say in one formula what
   the invariants say in several.

Further components worth a model: the session middleware (two requests that overwrite each other's cookie), the compression middleware over a
stream, the observable's listeners.
