# A TLA+ verification project for camera.ui RPC

camera.ui RPC is a remote procedure call library over NATS, with
implementations in Python, Go and Node and a client-only one in Swift that speak
one protocol. This directory holds TLA+ models of the parts whose correctness
depends on the order in which tasks, goroutines and messages interleave, the TLC
configurations that check them, and TLAPS proofs of the statements that matter
most. Paths below are relative to the repository, which is under `src/`; `client.py`,
`handler.py`, `chunking.py`, `channel.py`, `service.py`, `codec.py`, `utils.py`,
`decorators.py` are those of `src/python/camera_ui_rpc/`, Go files those of `src/go/`.

`PROJECT.json` holds the same facts in machine-readable form: which definition
stands for which lines (`map`), the runs, the mutants every property is tested
with, the findings, the hazards and the theorems.

## 1. The system

### Components

| Component | State it keeps | Operations | Modelled in |
|---|---|---|---|
| Request path, Python (`client.py`) | `pending_requests` (future, timer, cleanup hook), the muxed reply inbox, one reply entry per service call | `call()`, retry on missing responders, reply dispatcher, timer | `ClientCalls`, implements `RemoteCall` |
| Connection lifecycle, Python (`client.py`) | `nc`, `_closed`, the shared connection task, `_subscription_entries`, `isolated_clients`, options | `connect`, `disconnect`, `suspend`, `reconfigure`, restore, isolated clients | `ClientLifecycle` (what calls see of it: `ClientCalls`) |
| Chunking, Python (`chunking.py`) | per transfer: assembler, callback, activity stamp; a pool of assemblers | `create_chunks`, `process_chunk`, `cancel`, sweep of stale transfers | `Chunking` |
| Pull iterators, Python (`client.py`, `handler.py`) | consumer: response queue, `ended`, settle hook, status handler; session: `active`, `finished`, generator | init, next, cancel, settle on teardown, session cleanup | `PullIterator`, implements `ValueStream` |
| Pull iterators with callbacks, Python | pull state plus a callback queue and its task | next, callback, batch boundary | `PullCallback` |
| Push streams, Python | queue with an end marker, stream and status handlers | `call_stream` with retries, `handle_stream_request`, `run_stream` | `PushStream` |
| Handler registration, dispatch, callback subscriptions, Python | namespaces, message tasks, `callback_cleanups`, `pull_iterator_cleanups` | proxies, `register_handler`, `call_with_callback`, cleanup | `Endpoint`, `Exposure` |
| Services, Python (`service.py`) | registered services, their endpoints and session cleanups | register, dispatch, stop, discovery | `Endpoint`, `ClientLifecycle`, `NativeRequest` |
| Channels, Python (`channel.py`) | listeners, request handlers, remote id, `_closed` | open, send, request, close | `Channel` |
| Native requests, codec, Python (`client.py`, `codec.py`) | none beyond the call | `request`, `on_request`; msgpack and the CUIB frame | `NativeRequest`, `Codec` |
| Ids, error texts, types, Python | none | pure functions and data | not modelled |
| Push streams, Go (`client_stream.go`, `handler_stream.go`) | result channel, `ended` flag, `streamHandlers`, `statusHandlers`, subscription | five goroutines on the client, two on the server | `GoStream` |
| Go request path, pull iterators, callbacks, channels | as in Python, guarded by `sync.Map`, mutexes and atomics | as in Python | not modelled |
| Node and Swift implementations | as in Python | as in Python | not modelled |
| NATS server and client libraries | subscriptions, messages in flight | deliver, 503 status | external, inside each module |

### How they interact

Everything goes through one NATS connection per client. A caller registers what
it waits for (a future, a queue, a Go channel) in a dictionary of its client,
publishes a request that names a reply subject, and parks. The dispatcher of the
reply subscription, a timer, a 503 status from NATS or a teardown of the client
may each settle what is registered; exactly one of them must, and none may be
left out. Messages above the payload limit go through the chunking layer, which
all subscriptions of a client share. On the responder's side `register_handler()`
walks over the handlers' objects for what is marked, subscribes a subject per
method, and dispatches a request to a plain call, a push stream, a pull session
or a callback subscription; its cleanup must release what those opened. A
registration may have a connection of its own, held by an isolated client that
the parent has to take down and reconfigure with itself.

### Where it is hard

* **Everything settles everything.** An answer, a timer, a 503 and a teardown race
  for each waiting caller. In Python the race is between awaits; in Go it is
  between instructions.
* **State read before an await and used after it.** Teardowns sweep snapshots of
  dictionaries while awaiting hooks and then clear them; `subscribe()` returns into
  variables that a cleanup hook reads.
* **At-most-once delivery without acknowledgements.** A 503 exists only for a
  request published when nobody is subscribed. A responder that goes away
  later is silent, and a cancel or close message that is missed is not repeated.
* **Shared objects.** One `ChunkingManager` serves all subscriptions, its assemblers
  are pooled; all namespaces of a client share one map of session cleanups.
* **Retries.** What may be repeated is decided from an error's text and code.
* **Exceptions that are not `Exception`s.** `GeneratorExit` and `CancelledError` pass the
  `except Exception` blocks that release things.

The list, each at its line, is `hazards` in `PROJECT.json`; section 5 has more of what
the models exhibit. Where a hazard is
one the code has no answer to, the property that covers its neighbourhood names
it as an explicit exception, and the hazard's note says so.

## 2. The modules

Every module is one component with its environment: `VARIABLES` for the state
above, one action per stretch of code that runs without suspension. Comments
labelled "Mutant of" mark deliberately wrong variants of a definition; they are not
part of any specification and exist to show that the properties notice.

In the Python models an action runs a coroutine to its next `await`: asyncio runs
one task at a time, so nothing interleaves inside. Every `await` that matters is taken
as a possible suspension. In `GoStream` an action is one shared-memory operation.

### RemoteCall

The abstract specification of a call that runs at most once per attempt: a handler may begin
with the attempt the caller is in, the caller makes another one only when the last was never
begun (or `Repeats`: handlers answer with what looks like a 503), it returns only an answer of the
last attempt's handler, gets an `error` it has to leave open what happened, or is told that
nobody responds, after which no handler begins any more.

### ClientCalls (with ClientCalls_proof)

`call()` on an `rpc.` subject (`_call_once`, muxed reply inbox) and on a service
subject (`_call_once_service`, own reply subscription and inbox), the retry of
`_with_no_responder_retry`, `connect()` on demand through one shared task, the
dispatcher, the timers, and the teardown of `disconnect()` and `suspend()`.
`pc[c]`, `att[c]`, `fut[c]`, `outcome[c]` are where the task of call `c` is, its attempt,
its future and its outcome; an attempt has a fresh id `<<c, att>>`, as
`generate_id()` gives one. `pending` and `timer` are `pending_requests` and the armed
`call_later` handles. `connect()` opens the client first (`ConnectOpens`) and then
subscribes the entries of its snapshot one after the other, the mux among them (`RestoreEntry`,
`RestoreMux`): meanwhile the client counts as connected without its reply inbox, calls go on and
subscribe it themselves (`EnsureMux`), and a teardown may cut in. The teardown is a task too:
`tdPhase` says which `await` it is in, and `SweepRun` is the loop of `_cleanup_pending_requests()`
between two suspensions. A hook suspends only when it has something to unsubscribe (`HookAwaits`): that
of a service call that is still subscribing returns without yielding, and the sweep goes on.
Errors are abstracted to what the retry test tells apart: "err" (any other error)
and "err503" (code "503", or a text holding "no responders"). `Remote` instantiates `RemoteCall`:
what the caller sees is `Reported(c)`, and `ran` says what handlers began.

### ClientLifecycle (with ClientLifecycle_proof)

What an application registers (`Regs`, by kind: subscriptions, native request
handlers, services, and the kinds with an isolated client) through connects,
failing connects, lost transports, `suspend()`, `reconfigure()` and `disconnect()`.
`entries` are `_subscription_entries`, `live` what exists at the server, `todo` the rest of
the restore loop, `kids` and `kopts` the isolated clients and their options,
`tracked` is `isolated_clients`, `services` the list of `RPCService`. `reg[r]` is what the
application knows: it holds a registration, ended it, or the client dropped it without
telling. `Overlap` says whether the application overlaps `connect()` and
`disconnect()`; the properties are stated for one that does not.

### Chunking (with Chunking_proof)

`publish()` splits a message, `ChunkingManager.process_chunk()` assembles it,
`_get_assembler()`/`_return_assembler()` keep the pool, the stale sweep and `cancel()`
drop transfers. Payloads are sequences of (message, byte) pairs, so a byte that ends
up in the wrong place or message is visible. `asm`, `cb`, `act` are the manager's
dictionaries, `obj` the assembler objects by identity, `q[s]` what is delivered to
subscription `s` and not handled, `out[s]` the handler calls. `broken` is a history
variable: transfers that lost a message or were swept or cancelled.

### ValueStream

The abstract specification of an iteration over a remote source: the source makes
values, at most `Window` ahead of the consumer, stops exhausted or broken; the consumer takes
them in order, and its loop ends either complete, only after the last value of an
exhausted source, or short.

### PullIterator (with PullIterator_proof)

Both ends of one pull iterator: `call_pull_iterator()` with its queue, `ended` flag,
settle hook and status handler, and the session of
`handle_pull_iterator_request()` with `handle_pull_request()`, `finish()` and
`cleanup()`. `Faults` chooses what the environment does: a teardown of the consumer's
client, a cancelled consumer, a responder whose handlers are removed between two
requests ("gone") or at any time ("stop"), an iterator started while the teardown is
under way ("late"). The init call is abstracted to answered or raised. `Promise`
instantiates `ValueStream` with `Window <- 1`: the generator is the source, `outcome` tells
how the loop ended.

### PullCallback (with PullCallback_proof)

`call_pull_iterator_with_callback()` with `consume_callbacks()`, and
`handle_pull_callback_request()` with its `CallbackInvoker`. A frame carries the batch it
was fired in, so that a boundary that comes too early is visible. `holds` is what the
call keeps in its client. `silent` records why a consumer may wait for something that
never comes; `Ends` refers to it.

### PushStream (with PushStream_proof)

`call_stream()` with its retries and `None` as end marker, `handle_stream_request()` in
its task, `run_stream()`, the teardown of the consumer's client and a responder that refuses,
removes its handlers (which drops a request that is still undelivered) or vanishes. Every attempt has its own handlers (`held`), session
(`ssn`) and messages (`wire`), so a retry that runs the generator again is visible.

### Exposure and Endpoint (with Endpoint_proof)

`Exposure` is the walk of `extract_nested_methods_with_decorators()` (and the flat one
without decorators) over a graph of objects with marked attributes, as a recursive
function of the number of steps (`Visit`: the innermost call looks at one attribute or returns), and
`Leads`, the reference definition of "marked and reachable" it is checked
against. `Endpoint` takes the served paths from it and models the rest of the
server side for a client (`register_handler()`) and for a service (`endpoint_handler()`):
how a proxy routes a call (by name and arguments), what the dispatch makes of it, what runs
inline in the message task and what as a task, callback subscriptions from the
call to the cleanup, and the removal of handlers, the stop of a service and `disconnect()`,
each of which races the others. Streams and pull sessions are opened and ended here; what
happens in between is in their own modules.

### Channel

Both ends of a `Channel` or `PrivateChannel` on one subject: handshake, own echoes,
listeners, `on_request()`, `close()` from either or both ends with its cleanup task, close
listeners that await before it (`hearing`), a suspended client. `link` keeps the order of one sender to one receiver and nothing else.

### Codec and NativeRequest

`Codec` models `encode_message()` and `decode_message()`: msgpack's conversions, binaries
above the threshold moved out of the envelope, and the restoring of placeholders with
its sequential pass and its fallback. `Arrives`, the reference, says per kind of value what the other
side gets, as `tests/test_codec.py` expects it: a `date` or `time` as its text, an `Enum` member as
its value. Every pass of the codec walks a value depth first
and changes leaves only, so a value is the sequence of its leaves with their places.
`NativeRequest` composes it with `request()`, its retries, and `on_request()`'s
`handle_request()`, a service endpoint that gets a native request, and an encoder of
another language.

### GoStream (with GoStream_proof)

`callStreamOnce()` and the goroutines it starts (the subscription callback, the
context goroutine, the late-503 watcher), `Disconnect`/`Suspend`, the 503 dispatch of
the mux, and on the server `handleStreamRequestGo()` with `iterateAndPublish()`, whose `Publish` may
fail before or after values, and whose client may go away for good (`gone`). `pc[g]` is
the next instruction of goroutine `g`; `ch` is `buf` with capacity `Cap`, `closed`, and
`panic` when an operation on it would panic.

## 3. What TLC checks

`cd tla && tlc -config X.cfg M`. Deadlock checking is off in every configuration
because the systems really stop: calls return, streams end, a client is closed.

| Run | Instance | Properties |
|---|---|---|
| `calls_mixed` | 1 muxed and 1 service call, 1 retry, 1 teardown | `PendingLive`, `IsRemoteCall` |
| `calls_live` | 1 muxed call, 3 attempts, 2 teardowns, an application that calls `connect()` too, errors that look like a 503 | `Integrity`, `MuxReady`, `NoLostCall`, `CallEnds` |
| `calls_lost` | 2 service calls, 1 teardown | `NoLostCall`, violated: see Findings |
| `lifecycle` | 2 subscriptions and one registration of every other kind, any 3 of them made; 2 connects, 2 teardowns, 1 reconfigure | `RegistrationsHold`, `NothingLeft`, `OptionsCurrent`, `DisconnectTakesKids` |
| `chunks` | 2 messages of 2, 3 or 4 units with chunks of 2; 2 subscriptions on the first subject, 1 on the second; pool of 1 | `Bookkeeping`, `Intact`, `NoAliasing`, `DeliveredOnce` |
| `pull_safe` | 3 values; teardown, cancelled consumer, responder gone between requests | `InOrder`, `Lockstep`, `KeepsPromise`, `ConsumerWakes`, `SessionReleased` |
| `pull_callback` | 2 batches, 3 frames | `Boundaries`, `Released`, `Ends` |
| `push` | 2 values a session, 1 retry | `Delivered`, `OneStream`, `Released`, `Ends` |
| `endpoint` | 2 calls: a callback beside every other shape, plain beside tasks, two namespaces, and every path of an object graph with a shared, a cyclic and an unmarked part | `ServesWhatIsMarked`, `SessionsEndOnce`, `Subscribed`, `InOrder`, `LeavingReleases`, `NotHeldUp` |
| `channels` | 2 ends, one sends 2 messages, one answers, 1 suspend or removed listener, public and private | `Faithful`, `EndsLearn` |
| `native` | every message of up to three of seven leaves, eleven results, 1 retry | `ArrivesIntact`, `EndsAfterOneRun` |
| `gostream_safe` | 3 values, channel of 1, all faults: a cancelled context, a 503, a teardown, a message that cannot be published, a server that goes away | `NoSilentEnd`, `CloseOnce`, `CleanedUp`, `Reclaimed` |

What the less obvious ones say:

* `NoLostCall`: a caller that waits can still be woken, because its request is
  registered, its future is settled, or the teardown under way has it.
* `PendingLive`: what `pending_requests` holds is the attempt its caller is in, and is
  either settled or has its timer.
* `Integrity`: a call returns only an answer to its own current attempt.
* `IsRemoteCall`: the refinement, `Remote!Spec`. A call is attempted again only when nobody ran
  the last attempt, or when a handler answered with what looks like a 503; a caller that is told
  `NoRespondersError` can rely on no handler beginning afterwards.
* `RegistrationsHold`: a held subscription is there whenever the client is connected
  (`Restored`), what was ended stays away (`StaysGone`), and `stop_all()` misses no service that
  runs on the own connection (`ServicesKnown`). `NothingLeft`: a torn-down client receives
  nothing, a failed service proxy leaves no client.
* `DeliveredOnce`: a message that was delivered whole and neither swept nor
  cancelled reaches the one subscription on its subject, and no handler is called twice,
  while other messages and subscriptions share the manager.
* `Lockstep`: while the consumer works on a value, no request is under way and the
  generator rests at its yield. `KeepsPromise`: the refinement, `Promise!Spec`.
* `Boundaries`: when the loop's body runs, all callbacks of the batches so far have
  been processed (`BatchBoundary`), and the generator works on a batch only when they have
  (`Backpressure`).
* `Delivered`: values in order, and all of them when the loop ends normally, unless the
  client was torn down or a value was `None`. `OneStream`: a retry runs the generator
  again only after an error of its own that looks like a 503.
* `SessionsEndOnce`: a handler's cleanup starts at most once (`CleanupOnce`), nobody ends
  another namespace's sessions (`OthersLive`), and removing handlers forgets none that was
  registered (`RemovedIsClean`). `Subscribed`: a callback caller that got its answer is
  registered and misses no value.
* `ServesWhatIsMarked`: only methods reachable along marked attributes run, and each such
  method is served under at least one path.
* `Faithful`: messages in order and only from the target, one close event and only at
  the end that did not close, no request answered by a handler the channel knew.
  `EndsLearn`: handshake and close arrive.
* `ArrivesIntact`: what the handler sees and what the requester gets is what was sent,
  up to msgpack's conversions, for every order of segments; errors have a cause.
* `MuxReady`: a client that is connected and not being torn down has its reply inbox, or its
  restore loop still has it to do; however the attempts of `connect()`, callers that subscribe it
  themselves and teardowns overlap, no connection is left without it.
* `Ends` of `PushStream`: the consumer's loop is over some day, unless the stream was refused, its
  request was dropped with the handlers, its responder vanished, or it began during a teardown;
  `call_stream()` has no timeout for these.
* `NoSilentEnd`: values in order, and a result channel closed without an error, with nobody having
  cancelled or torn the client down, means a complete stream: the handler's channel came to its end, the
  server said so (`srv = "done"`, which a failed server never reaches) and every value was received. `CloseOnce`: as long as `callStreamOnce` has not taken an error return, the
  channel is closed at most once.

Some properties are conjunctions of named parts that speak of one promise; the parts
are separate definitions. Where one of the parts is the module's `TypeOK`, the composite is its
type invariant as well; the types of `ClientCalls` and `PullIterator` are proved (`TypeCorrect`).

**Bounds, and why they are enough.** A muxed and a service call are the two kinds of request
one teardown and one dispatcher can confuse; three attempts let an answer to the first meet
the last; two teardowns let a `disconnect()` follow a `suspend()` and a reconnect. The application's own `connect()`
(`AppConnects`) matters where a closed client must come back, in `calls_live`; elsewhere the calls connect. Two connects
and two teardowns in `lifecycle` give every order of suspend, reconfigure, disconnect and
reconnect around three registrations. Message sizes 2, 3 and 4 with chunks of 2 are the plain
message, the short last chunk and the exact multiple, which are the three cases of the offset
computation; three assembler objects with a pool of one make reuse, a full pool and a fresh object
all happen. Three values let the first, a middle and the last one differ; a channel
of capacity one is full at once, which the code's 64 reaches only with a slow
consumer. Two batches with three frames have a frame in each batch and one between them. Two
calls meet in a message task, in a namespace's removal and in a sweep. One fault of a channel
is enough to miss a message. Three leaves hold two binaries and something between them, in
any order. Symmetry is used for interchangeable registrations and assembler objects,
in `lifecycle` (safety only) and `chunks`.

**Fairness.** In the Python modules the event loop runs each ready task and each due timer,
a teardown that began goes on, and messages that were delivered are handled.
`ClientCalls` assumes nothing of the network, the responder or `connect()`, which may retry
for ever; `CallEnds` speaks of calls that got past `connect()`. In `PullIterator`,
`PullCallback` and `PushStream` a generator asked for a value yields, ends or raises; in the
latter two the consumer keeps asking, as an `async for` does, while in `PullIterator` it owes nothing.
`Endpoint` assumes that handlers and their cleanups return, not that a stream ends
or a caller leaves. `Channel` assumes deliveries, close listeners that return and scheduled cleanups. `NativeRequest` relies on
the timeout of `nc.request()`. `GoStream`: the Go scheduler runs the client's goroutines
that can go on; neither the consumer, nor the server, nor the application that cancels is fair.

## 4. What is proved

TLAPS proves the following for every value of the constants, from the named
assumptions of the modules alone: `CallsAssumption` (disjoint sets of calls, natural bounds),
`PullCallbackAssumption` (natural bounds), `LifecycleAssumption` (the kinds of registrations are disjoint), `ChunkingAssumption` (positive
sizes and chunk size, finitely many assembler objects), `PullAssumption`, `StreamAssumption` of
`PushStream` and of `GoStream` (natural bounds, positive capacity, faults from the named set) and
`EndpointAssumption` with `ExposureAssumption` (finitely many objects, a nested attribute names an object,
and so does every namespace's root). TLC evaluates each of them in the runs. A theorem with a further
hypothesis has it in the table.

| Theorem | States | Inductive invariant |
|---|---|---|
| `TypeCorrect` (ClientCalls) | `Spec => []TypeOK` | `TypeInv` |
| `PendingIsLive` | `Spec => []PendingLive` | `CallInv` |
| `AnswersAreGenuine` | `Spec => []Integrity` | `CallInv` |
| `MuxIsReady` | `Spec => []MuxReady` | `MuxKept` |
| `NoMuxedCallIsLost` | `SvcCalls = {}` implies `Spec => []NoLostCall` | `RpcInv` |
| `NoRespondersNotRun` | `"err503" \notin ErrKinds` implies `Spec => []NoRespondersMeansNotRun` | `NoRespInv` |
| `ImplementsRemoteCall` | `Spec => IsRemoteCall`, that is `Remote!Spec` | `NoRespInv` |
| `LifecycleTypes` | `Spec => []TypeOK` of `ClientLifecycle` | itself |
| `RegistrationsHoldAlways` | `~Overlap` implies `Spec => []RegistrationsHold` | `LifeInv` |
| `NothingLeftAlways` | `~Overlap` implies `Spec => []NothingLeft` | `LifeInv` |
| `OptionsCurrentAlways` | `~Overlap` implies `Spec => []OptionsCurrent` | `LifeInv` |
| `DisconnectTakesKidsAlways` | `~Overlap` implies `Spec => DisconnectTakesKids`, an action property | `LifeInv` |
| `DictionariesAgree` | `Spec => []Bookkeeping` of `Chunking` | itself |
| `AssemblersNotShared` | `Spec => []NoAliasing` | `AliasInv` |
| `IntactAlways` | `Spec => []Intact` | `ChunkInv` |
| `DeliveredOnceAlways` | `Spec => []DeliveredOnce`, types included | `ChunkInv` |
| `TypeCorrect` (PullIterator) | `Spec => []TypeOK` | `TypeInv` |
| `ValuesInOrder` | `Spec => []InOrder` of `PullIterator` | `PullInv` |
| `GeneratorNeverAhead` | `Spec => []Lockstep` | `PullInv` |
| `ImplementsValueStream` | `Spec => KeepsPromise`, that is `Promise!Spec` | `RefInv` |
| `BoundariesAlways`, `ClientReleasedAlways` | `Spec => []Boundaries`, `[]ClientReleased` of `PullCallback` | `Inv` |
| `DeliveredAlways`, `OneStreamAlways`, `ReleasedAlways` | `Spec => []Delivered`, `[]OneStream`, `[]Released` of `PushStream` | `PushInv` |
| `EndpointTypes` | `Spec => []TypeOK` of `Endpoint` | `EndInv` |
| `SessionsEndOnceAlways`, `SubscribedAlways` | `Spec => []SessionsEndOnce`, `[]Subscribed` | `EndInv` |
| `InOrderAlways` | `Spec => []InOrder` of `Endpoint` | `EndInv` and `OrderInv` |
| `WalkFindsWhatIsMarked` | what `WithDecorators(root)` is, for any graph of objects | `WalkInv`, over the steps of the walk |
| `ServesWhatIsMarkedAlways` | `Spec => []ServesWhatIsMarked`, types included | `EndInv` and `ServedInv` |
| `ClosedAtMostOnce` | `Spec => []CloseOnce` of `GoStream` | `CloseInv` |
| `ContextCleansUp` | `Spec => []CleanedUp` | `CleanInv` |
| `NoSilentEndAlways` | `Spec => []NoSilentEnd`, types and order included | `SilentInv` |

The argument for the calls: `TypeOK` is not inductive, because `Backoff` increments the
attempt; `TypeInv` adds `RetryLeft` (a call that sleeps has an attempt left).
`PendingLive` needs to know that an attempt leaves `pending_requests` before its call
moves on to the next one, and `Integrity` that answers in the network come from handlers
that ran (`AnswersRan`) and that a sleeping call's request is settled (`BackoffSettled`); together they are
`CallInv`. `MuxReady` forgets its promise as soon as a teardown begins, and a
teardown that is idle again must not leave a connection without inbox; `MuxKept` says that the inbox is
there until the teardown has come past the unsubscribing, that then the connection is on its way
out, and that what the restore loop has not done yet is still in its snapshot. `NoLostCall` without service calls rests on the sweep being one
uninterrupted step, since no request has a hook to await (`SweepAtomic`), so that
every waiting attempt is registered or settled (`Registered`). With service
calls the sweep is interrupted and the statement is false: run `calls_lost`.

The refinement `ImplementsRemoteCall` needs to know where a request can still be run. A call is
attempted again only after what looked like a 503: a refusal, which takes the request off the wire, or
a handler's own error (`Repeats`; section 5). `NoRespInv` adds to `CallInv` that answers and settled futures
of a handler come from a run of it (`RanInv`); that what is on the wire or was run is the attempt the call is
in, and was not refused, or an earlier one that ran and was repeated (`SentInv`); and that a call that
sleeps, or raised `NoRespondersError`, was refused last or may repeat (`RefusedInv`). Each action is a step of
`RemoteCall` or a stutter (`RemoteStep`): a handler that runs is `Execute`, `Backoff` is `Retry`,
`RemoteTell` and `RemoteRaises` are the ways a caller is told, a failing `connect()` is `Fail` of all who wait for it
(`RemoteTask`, `RemoteEvent`, `RemoteTeardown`). Without handlers that look like a 503 a call that ends with
`NoRespondersError` was executed by nobody in any attempt (`NoRespondersMeansNotRun`), from the same invariant.

The argument for the lifecycle: with connects and teardowns that do not overlap (the
hypothesis `~Overlap`; section 5 says what happens otherwise) the snapshot of entries that a
restore works through stays valid. `PhaseInv` says that a connection task and a teardown exclude
each other; `EntryInv` that what is held has its entry and is subscribed or in the snapshot, and
what was given up is in neither; `KidInv` that an isolated client that may get connected is tracked,
hence in what a teardown works through; `DialInv` and `TrackedInv` that whatever dials has the
current options. The types hold with overlaps too.

The argument for Go: whoever wins `CompareAndSwap` on `ended` is the only goroutine at
a close instruction (`CloseInv`), until an error return that bypasses the flag
(`Undoing`). `CleanInv` tracks which goroutine still owes the removal of the handler and
the subscription.

`NoSilentEnd` is about what the consumer can conclude from a closed channel. `SilentInv`
follows the values: what was received and what is buffered are the values from the first on with an
error last (`SeenInv`), the message in the hands of the subscription's goroutine is the next one
(`HandInv`), what is queued behind it continues it as long as the handler is registered and nobody
has ended the stream (`QueueInv`), a 503 and an answer exclude each other (`PhaseInv`), and
whoever is about to close has a reason that the consumer can see (`EndInv`). With the Go channel full
and a goroutine waiting in `push()`, this is where a value would get lost. A server that failed, in
mid-stream or before, ends in "failed" or "left"; only an end message in order makes a close `Finished`, and that
one is sent only when every value was.

The argument for push streams in Python: every attempt has a session of its own. While an
attempt listens, what the consumer has, what is queued and what is on the wire add up to what the
session sent (`FlowInv`, with `WireInv` for the order on the wire); an error tells what became
of the session (`ErrorInv`), so the retry loop goes on only when the session never ran or
raised a 503 lookalike; and only the current attempt holds handlers (`HeldInv`).

The argument for the server side: a request is in one place, its namespace's queue, the
message task or a task of its own (`QueueInv`). What it opens is in the ids of its namespace before
the answer is sent (`IdsInv`, `TrackedInv`), and has its entry until it is cleaned up, once
(`CleanInv`): each of the four that end sessions takes the entry out before it runs the
cleanup. `RemoveInv` says that once handlers are being removed nothing inline can register
any more and what is registered is cleaned or still to be. That last part is where a removal and a
`disconnect()` that took its snapshot earlier meet.

`InOrder` of `Endpoint` says that what runs inline in a message task starts in the order of arrival.
`OrderInv` follows the queue of a namespace: it is the end of what arrived, and every inline
request before it has started (`Waits`); what started keeps the order (`Ordered`); and who started is not queued
again. It holds as long as the namespace receives (`Receiving`) or has a queue; a cleared queue of a
handler that is gone drops requests, which the order of the others survives.

`ServesWhatIsMarked` is a statement about a recursive function, over all object graphs. The provers cannot
instantiate the library's induction theorems, whose parameter is an operator; they can use the
well-foundedness of the naturals as a fact about sets, from which `NatLeast` and `Inductive` follow. With them
`RunExists` gives the walk its values, step by step. `WalkInv` holds after every step: each call under
way stands at an attribute of its own object (`CallsInv`), what was passed over is served or visited
(`SeenInv`), the path of a visited object leads to it from the root (`WayInv`) and every handler is marked and reachable
(`MarkedInv`). A step looks at one more place, a pair of object and attribute (`LooksAtMore`), so
after as many steps as there are places no call is left (`WalkOver`), and then everything a way leads to
was visited (`WayVisited`). `ServedInv` adds that a server works only on paths it serves.

Pull iterators with callbacks: a batch is one request, some frames and one answer, and
the request is in one place at a time: at the session (`RequestInv`), in the generator's hands, on the wire as
its answer (`WireInv`), in the consumer's queue (`QueueInv`) or in the loop that waits for the
callbacks (`JoinInv`). A frame belongs to the batch the consumer waits for, or to none
(`FrameInv`), and none of a batch follows its answer on the wire; so when the loop's body runs nothing
of a batch is left anywhere (`IdleInv`), nor when it ended normally (`EndInv`). `HoldsInv` is what a call that
is over keeps, with the exceptions that `ClientReleased` names.

The argument for pull iterators follows one token (`TokenInv`): a `next` request turns into a
call of the generator, that into one response, that into one item of the consumer's queue,
and only then the consumer asks again. A teardown or a 503 adds an error to the queue or
destroys the token; nothing duplicates it. `CancelInv` (only a consumer that is through
cancels) and `GenInv` (an ended session is not asked again) keep a `done` that answers a
cancel apart from the one that ends the iteration. The theorems hold with every fault,
"late" and "stop" included.

The refinement `ImplementsValueStream` needs more than `PullInv`, because the abstract
source may not run ahead after the consumer has left either: a `next` request may still be
under way when the consumer's loop is over. `AheadInv` says that while such a request, or a
call of the generator, exists, nothing is ahead of what the consumer got. `OutcomeInv` (the outcome is
set when the loop ends, not before) makes every end a `Complete` or a `FallShort`. Each
action is then shown to be a step of `ValueStream` or a stutter (`StepKeepsPromise`):
`YieldValue` is `Make`, `EndSession` and `CleanupSession` are `Stop` (`SourceStops`), `Get` is `Take`,
`Complete` or `FallShort`, and all others leave the mapped state alone (`Unseen`) or end the
loop (`LoopEnds`).

The argument for chunking: the id stored in an assembler is the transfer it is registered
under, so two transfers cannot hold the same object; what is pooled was taken out of
the dictionary in the same step (`PoolGrows`), and what is handed out is in the pool or in
nobody's use (`StartAlias`). `AliasInv` adds that all of them are objects. For delivery, `ChunkInv`
adds the way of a message: its parts are queued at each listener in order (`QueueInv`) and, unless
one was lost, without a gap (`GapInv`); an assembler has the bytes of the chunks it counted at their
place and is not complete (`BuildInv`, resting on lemmas about the offsets: `ChunkOfByte`,
`ChunkCovers`, `ChunkAdded`); what was handed over is neither queued from its start nor
being assembled for the same subscription, so it cannot be handed over twice (`OnceInv`); and of a
message with one listener the assembler has exactly the chunks that were published and are
not queued any more (`ProgressInv`). With the queue worked through those are all chunks, which an
incomplete assembler cannot have: so the message was delivered. `OnlyOne` reduces each step to the
one message it deals with.

**Only model-checked.** Liveness (`CallEnds`, `ConsumerWakes`, `SessionReleased`,
`Reclaimed`, `Ends`, `Released` of `PullCallback` (its safety half is proved), `EndsLearn`, `LeavingReleases`, `NotHeldUp`,
`EndsAfterOneRun`): fairness and `ENABLED` are beyond the prover. `ArrivesIntact` of `NativeRequest`
rests on what the passes of `Codec` compute for every value, a recursion that was not proved.
Not proved yet either: `Faithful` of `Channel`. `calls_lost` is a counterexample by TLC. The larger
inductive invariants (`ChunkInv`, `SilentInv`) were checked with TLC on small instances before
they were proved.

## 5. Findings and observations

**Finding** (run `calls_lost`). `_cleanup_pending_requests()` claims to settle all
in-flight requests. A service call registered while the teardown awaits another call's
cleanup hook is dropped by `pending_requests.clear()` and its caller waits for ever.

**Observations.** Behaviour of the code that a model exhibits and that a user of the
library should know; the properties name it as an exception or exclude it by a constant, and
dropping the exception lets TLC show it.

* An error that a handler itself answers and that looks like a 503 is retried as if no
  responder had been there, so the request is executed again (`ErrKinds` with "err503";
  `EndsAfterOneRun`, `OneStream`).
* Two subscriptions of one client on one subject share a transfer id in the
  `ChunkingManager`; for a chunked message only one handler is called (`DeliveredOnce`).
* A responder that removes its handlers while it works on a `next` sends nothing, and the
  consumer has no timeout ("stop"); an iterator that starts between
  `_settle_pull_iterators()` and the close of the connection is not settled ("late").
* Push streams in Python: the value `None` ends the stream; leaving the loop early
  cancels nothing and keeps the handler and subscription; a generator that cannot be
  opened is reported to nobody.
* Pull iterators with callbacks: a `subscribe()` that raises, or a cancellation
  during the init call, leaves the consumer task; a callback that raises
  `CancelledError` stops it, and the loop waits for ever.
* Callback subscriptions: values of a sync handler are dropped, because its thread has no
  event loop; a call that times out leaves the registration at the responder; a session
  opened while `disconnect()` awaits the cleanups of others is forgotten; a service takes a
  callback request for a plain call.
* A service awaits its streams in the message task and runs chunked requests out of order; a
  client does neither.
* A result that msgpack cannot pack makes the error reply fail as well.
* A namespace proxy resolves no nested attributes, and a method whose name contains
  "generate" or "pull" is called as a stream whatever it is.
* `suspend()` loses the handlers of isolated clients, `on_request()` handlers and services,
  although `reconfigure()`'s docstring speaks of preserved subscriptions; a service's
  isolated client is ended neither by `disconnect()` nor by `Service.stop()`, and a channel's
  not by `close()`.
* With overlapping calls (`Overlap = TRUE`), a connection attempt in flight opens a client
  again that was disconnected, and the end of a teardown drops a connection that was made
  meanwhile.
* The request handler of a private channel answers after `close()`; a close message that
  a suspended end misses is not repeated.
* The codec packs `date` and `time` natively as text, so the branches of `_default_handler()` for them
  (`codec.py:25-31`, "Convert date to datetime at midnight") are never reached;
  `tests/test_codec.py:151-154` expects the text.
* A push stream request that is undelivered when the handlers are removed, and close listeners that a `suspend()`
  interrupts, are dropped silently: the consumer waits, the channel is not cleaned up.
* An application's map that looks like a binary placeholder, in a message with real
  ones, does not arrive as it was sent.
* Go push streams: the check of `ended` and the send on the channel are two steps, and a
  close between them panics, as does the close of an error return after a teardown; a cancel published
  before the server has subscribed to it is never heard.

## 6. Abstractions and assumptions

* NATS delivers to a subscription in publishing order, at most once, and sends a 503
  only for a request published while nobody is subscribed. Unsubscribing, and closing
  the connection, drop what is undelivered. Automatic reconnecting inside the library and
  slow-consumer drops are not modelled; a connection it gives up is (`TransportLost`).
* In `PullCallback` frames and responses arrive in the order in which the responder publishes
  them: both come over one connection, and neither message handler suspends before it has queued
  what it got.
* The objects that are walked for handlers are finitely many and stay the same during the walk: a
  property that builds a new object on every access is not modelled.
* One teardown runs at a time in a client; in the stream and iterator modules it is final.
* An isolated client connects in one step in `ClientLifecycle`. `Endpoint` has one method that is
  called per namespace. The stop of a NATS micro service may or may not let queued
  requests run.
* In `GoStream` the server's client may go away for good; one that reconnects inside the library and loses
  values on the way is not modelled. The retry wrapper around `callStreamOnce` is left out.
* `nc.close()` and `unsubscribe()` leave their subscriptions `_closed`, so that the test "sub is None or
  sub._closed" of the restore loop finds exactly the entries that are not live. That is how
  `ClientLifecycle` takes its snapshot (`entries \ live`) and `ClientCalls` skips an entry.
* In `ClientCalls` the waiters of a connection task go on in the step in which it ends. A caller of
  `connect()` that is itself cancelled is not modelled.
* Payload contents (outside `Codec` and `Chunking`), subjects and logging are left out; ids are
  unique.
* History variables (who ran, what was lost, `silent`) record what the properties speak of
  and guard no action.

## 7. Not modelled, and why

Id generation, error texts and type definitions are pure functions or data.
`ServiceMonitor`'s `ping()` and `stats()` and the getters of services only read.
`_handle_timeout()`, `_handle_rpc_response()` and `_handle_stream_message()` of `client.py` are called
by nobody. Examples, tests and benchmarks are users of the library. The Go call path, pull
iterators, callbacks and channels repeat the Python protocols on goroutines, which is a question of
instruction-level races that needs modules like `GoStream` for each. The Node implementation
follows the same protocol on one event loop, the Swift client is a subset of it;
modelling them is worthwhile where they differ.

## 8. Plan

1. Proofs: `Faithful` of `Channel`, the passes of `Codec`.
2. `PushStream` as a `ValueStream` with an unbounded window, outside of its named exceptions.
3. `GoCalls` and `GoPull`: the request path and the pull iterator on goroutines.
