------------------------------ MODULE Endpoint ------------------------------
(***************************************************************************)
(* The handlers of one client or service: how a proxy routes a call, how   *)
(* register_handler() dispatches the requests of its namespaces, callback  *)
(* subscriptions from call to cleanup, and the removal of the handlers.    *)
(*                                                                         *)
(* A namespace has one method here that is called, hence one subscription  *)
(* with one message task, which a step advances to its next await. Streams *)
(* and pull sessions are opened and ended here; PushStream, PullIterator   *)
(* and PullCallback model what happens in between.                         *)
(***************************************************************************)
EXTENDS Exposure

CONSTANTS
    Requests,
    Namespaces,
    Handlers,       \* namespace -> root (of Objects) and decorators, or not
    Scenarios,      \* which calls are made, and to which namespace
    MaxValues,      \* bound: values a handler emits to one callback
    Idle            \* not a request

(* A call: the path of the method, what its last name contains, a callable or
   RPCCallbacks among the arguments, what the handler is, whether the request is
   sent in chunks and whether a proxy makes the call or call() itself. *)
Shapes == [path : Seq(STRING), proxied : BOOLEAN, name : {"plain", "generate", "pull"}, arg : {"none", "callable", "bundle"},
           handler : {"value", "unpackable", "generator", "callback", "synccallback"},
           chunked : BOOLEAN]

ASSUME EndpointAssumption ==
    /\ MaxValues \in Nat /\ Idle \notin Requests
    /\ \A n \in Namespaces : Handlers[n].root \in DOMAIN Objects
    /\ \A s \in Scenarios : s.to \in [Requests -> Namespaces] /\ s.call \in [Requests -> Shapes]

VARIABLES
    host,       \* who registered the handlers: client or service
    to,         \* request -> its namespace
    call,       \* request -> its shape
    req,        \* request -> caller, srv and the state of what it opened
    ns,         \* namespace -> stage, queue, busy (with a request), ids, arrived, started
    closing,    \* disconnect() of the host: no, sweep or closed
    swept,      \* cleanups that it, or a stop of the service, still has to run
    replies,    \* replies on their way: <<request, outcome>>
    cancels     \* cancel messages on their way

fixed == <<host, to, call>>
vars == <<fixed, req, ns, closing, swept, replies, cancels>>

-----------------------------------------------------------------------------
(* create_proxy() and create_service_proxy(): the kind of call depends on the
   arguments and on the method's name, never on its handler. *)
Route(c) ==
    CASE c.arg = "bundle" -> "pull"
      [] c.arg = "callable" -> "callback"
      [] c.arg = "none" /\ c.name = "generate" -> "stream"
      [] c.arg = "none" /\ c.name = "pull" -> "pull"
      [] c.arg = "none" /\ c.name = "plain" -> "normal"

(* The methods a namespace serves, by their paths; those of a service are its
   endpoints, in a group for every nested object. *)
Decorated == [n \in Namespaces |-> WithDecorators(Handlers[n].root)]
Undecorated == [n \in Namespaces |-> WithoutDecorators(Handlers[n].root)]
ServiceServed(n) == Decorated[n]
Served(n) ==
    IF host = "service" THEN ServiceServed(n)
    ELSE IF Handlers[n].decorators THEN Decorated[n] ELSE Undecorated[n]

(* The proxy of a namespace has no nested attributes: __getattribute__(), which
   it calls for one, does not fall back on __getattr__().  The proxy of a service
   has the endpoints that were discovered. *)
ProxyResolves(r) == Len(call[r].path) = 1
ServiceProxyResolves(r) == call[r].path \in Served(to[r])
Resolves(r) ==
    ~call[r].proxied \/ IF host = "client" THEN ProxyResolves(r) ELSE ServiceProxyResolves(r)

(* What the dispatch makes of it: a client tells every marker in the params, a
   service those of streams and pull iterators without callbacks. *)
ClientKind(c) == Route(c)
ServiceKind(c) == IF c.arg = "none" THEN Route(c) ELSE "normal"
Handled(r) == IF host = "client" THEN ClientKind(call[r]) ELSE ServiceKind(call[r])

(* The handler can be called that way. *)
Fits(r) ==
    CASE Handled(r) = "normal" -> call[r].arg = "none" /\ call[r].handler \in {"value", "unpackable"}
      [] Handled(r) \in {"stream", "pull"} -> call[r].handler = "generator"
      [] Handled(r) = "callback" -> call[r].handler \in {"callback", "synccallback"}

Init ==
    /\ host \in {"client", "service"}
    /\ \E s \in Scenarios : to = s.to /\ call = s.call
    /\ req = [r \in Requests |->
                [caller |-> "new", srv |-> "none", resource |-> "none", cleaned |-> FALSE, cleanups |-> 0,
                 cancelSub |-> FALSE, entry |-> FALSE, listening |-> FALSE, emitted |-> 0, missed |-> 0]]
    /\ ns = [n \in Namespaces |-> [stage |-> "up", queue |-> <<>>, busy |-> Idle, ids |-> {},
                                   arrived |-> <<>>, started |-> <<>>]]
    /\ closing = "no" /\ swept = {} /\ replies = {} /\ cancels = {}

-----------------------------------------------------------------------------
(* The caller. *)

Accepting(r) ==
    /\ Resolves(r) /\ call[r].path \in Served(to[r])
    /\ ns[to[r]].stage \in {"up", "stopping"} /\ closing # "closed"

(* Mutant of Call: a callback call listens once it has its answer. *)
CallThenListen(r) ==
    /\ req[r].caller = "new"
    /\ \/ /\ Accepting(r)
          /\ req' = [req EXCEPT ![r].caller = "waiting", ![r].srv = "queued"]
          /\ ns' = [ns EXCEPT ![to[r]].queue = Append(@, r), ![to[r]].arrived = Append(@, r)]
       \/ /\ ~Accepting(r)
          /\ req' = [req EXCEPT ![r].caller = "error"]
          /\ UNCHANGED ns
    /\ UNCHANGED <<fixed, closing, swept, replies, cancels>>

(* call() and its kin; call_with_callback() subscribes to the values first.
   Without a subscription NATS answers, and the call raises. *)
Call(r) ==
    /\ req[r].caller = "new"
    /\ \/ /\ Accepting(r)
          /\ req' = [req EXCEPT ![r].caller = "waiting", ![r].srv = "queued",
                                ![r].listening = Route(call[r]) = "callback"]
          /\ ns' = [ns EXCEPT ![to[r]].queue = Append(@, r), ![to[r]].arrived = Append(@, r)]
       \/ /\ ~Accepting(r)
          /\ req' = [req EXCEPT ![r].caller = "error"]
          /\ UNCHANGED ns
    /\ UNCHANGED <<fixed, closing, swept, replies, cancels>>

(* The reply; call_with_callback() ends its subscription when the call raises. *)
GetReply(r, outcome) ==
    /\ <<r, outcome>> \in replies
    /\ replies' = replies \ {<<r, outcome>>}
    /\ req' = [req EXCEPT ![r].caller = outcome, ![r].listening = @ /\ outcome = "ok"]
    /\ UNCHANGED <<fixed, ns, closing, swept, cancels>>

(* A call has a timeout, a stream has none.  A late reply is ignored. *)
TimeOut(r) ==
    /\ req[r].caller = "waiting" /\ Route(call[r]) # "stream"
    /\ req' = [req EXCEPT ![r].caller = "timeout", ![r].listening = FALSE]
    /\ replies' = {m \in replies : m[1] # r}
    /\ UNCHANGED <<fixed, ns, closing, swept, cancels>>

(* The unsubscribe() a callback call returned, or leaving a pull iterator. *)
Leave(r) ==
    /\ req[r].caller = "ok" /\ Route(call[r]) \in {"callback", "pull"}
    /\ req' = [req EXCEPT ![r].caller = "left", ![r].listening = FALSE]
    /\ cancels' = IF req[r].cancelSub THEN cancels \cup {r} ELSE cancels
    /\ UNCHANGED <<fixed, ns, closing, swept, replies>>

-----------------------------------------------------------------------------
(* The dispatch: handle_message() of a client, endpoint_handler() of a
   service. *)

Replied(r, outcome) == IF req[r].caller = "waiting" /\ Route(call[r]) # "stream"
                         THEN replies \cup {<<r, outcome>>} ELSE replies

Freed(n, r) == IF ns[n].busy = r THEN Idle ELSE ns[n].busy

(* Mutants of ClientTask: a client awaits its streams, like a service; a client
   runs chunked requests as tasks, like a service. *)
ClientTaskNone(r) == FALSE
ClientTaskChunked(r) == Handled(r) = "stream" \/ call[r].chunked

(* A client runs streams as tasks; a service runs requests that came in chunks
   as tasks.  Everything else holds up the message task. *)
ClientTask(r) == Handled(r) = "stream"
ServiceTask(r) == call[r].chunked
AsTask(r) == IF host = "client" THEN ClientTask(r) ELSE ServiceTask(r)

Take(n) ==
    /\ ns[n].queue # <<>> /\ ns[n].busy = Idle
    /\ LET r == Head(ns[n].queue) IN
       \/ /\ AsTask(r)
          /\ req' = [req EXCEPT ![r].srv = "task"]
          /\ ns' = [ns EXCEPT ![n].queue = Tail(@)]
       \/ /\ ~AsTask(r)
          /\ req' = [req EXCEPT ![r].srv = "invoke"]
          /\ ns' = [ns EXCEPT ![n].queue = Tail(@), ![n].busy = r, ![n].started = Append(@, r)]
    /\ UNCHANGED <<fixed, closing, swept, replies, cancels>>

StartTask(r) ==
    /\ req[r].srv = "task"
    /\ req' = [req EXCEPT ![r].srv = "invoke"]
    /\ ns' = [ns EXCEPT ![to[r]].started = Append(@, r)]
    /\ UNCHANGED <<fixed, closing, swept, replies, cancels>>

(* The handler is done without anything left open: handle_normal_rpc(), or an
   exception, which format_error_dict() turns into an error reply.  The error
   reply for a result that cannot be packed holds that result again and fails,
   too.  Nobody waits for the reply to a stream (a client does not send one). *)
Returned(r) ==
    /\ req[r].srv = "invoke"
    /\ req' = [req EXCEPT ![r].srv = "done"]
    /\ ns' = [ns EXCEPT ![to[r]].busy = Freed(to[r], r)]
    /\ UNCHANGED <<fixed, closing, swept, cancels>>

Result(r) == IF call[r].handler = "unpackable" THEN replies ELSE Replied(r, "ok")

Answer(r) ==
    /\ host = "client" /\ Returned(r)
    /\ \/ Handled(r) = "normal" /\ Fits(r) /\ replies' = Result(r)
       \/ replies' = Replied(r, "error")

(* A service's handler may take a marker that is not for it as its argument. *)
ServiceAnswer(r) ==
    /\ host = "service" /\ Returned(r)
    /\ \/ Handled(r) = "normal" /\ (Fits(r) \/ call[r].arg # "none") /\ replies' = Result(r)
       \/ replies' = Replied(r, "error")

(* The handler returned a generator, or took the callback: subscribe for the
   cancel message. *)
Open(r) ==
    /\ req[r].srv = "invoke" /\ Fits(r) /\ Handled(r) # "normal"
    /\ req' = [req EXCEPT ![r].srv = IF Handled(r) = "stream" THEN "streaming" ELSE "subscribe",
                          ![r].resource = "open"]
    /\ UNCHANGED <<fixed, ns, closing, swept, replies, cancels>>

StreamEnds(r) ==
    /\ req[r].srv = "streaming"
    /\ req' = [req EXCEPT ![r].srv = "done", ![r].resource = "closed",
                          ![r].caller = IF @ = "waiting" THEN "ok" ELSE @]
    /\ ns' = [ns EXCEPT ![to[r]].busy = Freed(to[r], r)]
    /\ UNCHANGED <<fixed, closing, swept, replies, cancels>>

(* The cleanup is stored in a map of the client and its id with the namespace... *)
Track(r) ==
    /\ host = "client" /\ req[r].srv = "subscribe"
    /\ req' = [req EXCEPT ![r].srv = "reply", ![r].cancelSub = TRUE, ![r].entry = TRUE]
    /\ ns' = [ns EXCEPT ![to[r]].ids = @ \cup {r}]
    /\ UNCHANGED <<fixed, closing, swept, replies, cancels>>

(* ...or in the map of the service. *)
ServiceTrack(r) ==
    /\ host = "service" /\ req[r].srv = "subscribe"
    /\ req' = [req EXCEPT ![r].srv = "reply", ![r].cancelSub = TRUE, ![r].entry = TRUE]
    /\ ns' = [ns EXCEPT ![to[r]].ids = @ \cup {r}]
    /\ UNCHANGED <<fixed, closing, swept, replies, cancels>>

(* Then the reply is published. *)
Reply(r) ==
    /\ req[r].srv = "reply"
    /\ req' = [req EXCEPT ![r].srv = "done"]
    /\ ns' = [ns EXCEPT ![to[r]].busy = Freed(to[r], r)]
    /\ replies' = Replied(r, "ok")
    /\ UNCHANGED <<fixed, closing, swept, cancels>>

-----------------------------------------------------------------------------
(* handle_callback_request(). *)

(* wrapper_callback(), as long as the caller cares; the one for sync handlers
   finds no event loop in the executor's thread and drops the value. *)
Emit(r) ==
    /\ Handled(r) = "callback" /\ req[r].resource = "open" /\ closing # "closed"
    /\ req[r].emitted < MaxValues /\ req[r].caller \in {"waiting", "ok"}
    /\ LET heard == req[r].listening /\ call[r].handler = "callback" IN
       req' = [req EXCEPT ![r].emitted = @ + 1, ![r].missed = IF heard THEN @ ELSE @ + 1]
    /\ UNCHANGED <<fixed, ns, closing, swept, replies, cancels>>

(* Mutant of OnCancel: the flag cleaned_up is set once the cleanup has run. *)
OnCancelFlagLate(r) ==
    /\ r \in cancels /\ cancels' = cancels \ {r}
    /\ IF req[r].cancelSub
         THEN req' = [req EXCEPT ![r].entry = FALSE,
                                 ![r].resource = IF req[r].cleaned THEN @ ELSE "cancelled",
                                 ![r].cleanups = IF req[r].cleaned THEN @ ELSE @ + 1]
         ELSE UNCHANGED req
    /\ UNCHANGED <<fixed, ns, closing, swept, replies>>

(* on_cancel(), up to the await of the handler's own cleanup. *)
OnCancel(r) ==
    /\ r \in cancels /\ cancels' = cancels \ {r}
    /\ IF req[r].cancelSub
         THEN req' = [req EXCEPT ![r].entry = FALSE, ![r].cleaned = TRUE,
                                 ![r].resource = IF req[r].cleaned THEN @ ELSE "cancelled",
                                 ![r].cleanups = IF req[r].cleaned THEN @ ELSE @ + 1]
         ELSE UNCHANGED req
    /\ UNCHANGED <<fixed, ns, closing, swept, replies>>

(* Mutant of CancelDone: the cancel subscription is kept. *)
CancelDoneSubscribed(r) ==
    /\ req[r].resource = "cancelled"
    /\ req' = [req EXCEPT ![r].resource = "closed"]
    /\ UNCHANGED <<fixed, ns, closing, swept, replies, cancels>>

(* The handler's cleanup is over; the task that unsubscribes runs. *)
CancelDone(r) ==
    /\ req[r].resource = "cancelled"
    /\ req' = [req EXCEPT ![r].resource = "closed", ![r].cancelSub = FALSE]
    /\ UNCHANGED <<fixed, ns, closing, swept, replies, cancels>>

(* cleanup(): the unsubscribe cancels an on_cancel() under way, with the
   handler's cleanup inside it; that is not run again. *)
Cleanup(r, entry) ==
    [req[r] EXCEPT !.cancelSub = FALSE, !.entry = entry, !.cleaned = TRUE,
                   !.resource = IF @ = "cancelled" THEN "cut" ELSE "closed",
                   !.cleanups = IF req[r].cleaned THEN @ ELSE @ + 1]

-----------------------------------------------------------------------------
(* Removing handlers. *)

(* A subscription ends: its message task is cancelled, whatever it awaits. *)
Ended(n, stage) ==
    [ns[n] EXCEPT !.stage = stage, !.queue = <<>>, !.busy = Idle]
CutOff(n) ==
    [r \in Requests |-> IF ns[n].busy = r \/ r \in Range(ns[n].queue) THEN [req[r] EXCEPT !.srv = "cut"] ELSE req[r]]

(* register_handler()'s cleanup(): first the subscription... *)
RemoveHandlers(n) ==
    /\ host = "client" /\ ns[n].stage = "up" /\ closing = "no"
    /\ req' = CutOff(n)
    /\ ns' = [ns EXCEPT ![n] = Ended(n, "removing")]
    /\ UNCHANGED <<fixed, closing, swept, replies, cancels>>

Tracked(n) == {r \in ns[n].ids : req[r].entry}

(* ...then what its own requests opened, each popped before it is awaited. *)
RemoveTracked(n) ==
    /\ ns[n].stage = "removing"
    /\ \/ \E r \in Tracked(n) : req' = [req EXCEPT ![r] = Cleanup(r, FALSE)] /\ UNCHANGED ns
       \/ /\ Tracked(n) = {}
          /\ ns' = [ns EXCEPT ![n].stage = "removed"] /\ UNCHANGED req
    /\ UNCHANGED <<fixed, closing, swept, replies, cancels>>

(* stop_with_cleanup() of a service: a snapshot of the cleanups, then clear(),
   then the subscription; NATS may let the queued requests run. *)
Stop(n) ==
    /\ host = "service" /\ ns[n].stage = "up"
    /\ ns' = [ns EXCEPT ![n].stage = "stopping"]
    /\ swept' = swept \cup Tracked(n)
    /\ UNCHANGED <<fixed, req, closing, replies, cancels>>

Stopped(n) ==
    /\ ns[n].stage = "stopping" /\ \A r \in swept : to[r] # n
    /\ \/ /\ ns' = [ns EXCEPT ![n] = Ended(n, "removed")]
          /\ req' = [r \in Requests |-> IF to[r] = n THEN [CutOff(n)[r] EXCEPT !.entry = FALSE] ELSE req[r]]
       \/ /\ ns' = [ns EXCEPT ![n].stage = "removed"]
          /\ req' = [r \in Requests |-> IF to[r] = n THEN [req[r] EXCEPT !.entry = FALSE] ELSE req[r]]
    /\ UNCHANGED <<fixed, closing, swept, replies, cancels>>

(* disconnect() of a client: a snapshot of the cleanups, which run as tasks,
   then clear(), then every subscription. *)
Disconnect ==
    /\ host = "client" /\ closing = "no"
    /\ closing' = "sweep"
    /\ swept' = {r \in Requests : req[r].entry}
    /\ UNCHANGED <<fixed, req, ns, replies, cancels>>

SweepOne(r) ==
    /\ r \in swept /\ swept' = swept \ {r}
    /\ req' = [req EXCEPT ![r] = Cleanup(r, @.entry)]
    /\ UNCHANGED <<fixed, ns, closing, replies, cancels>>

Disconnected ==
    /\ closing = "sweep" /\ swept = {}
    /\ closing' = "closed"
    /\ req' = [r \in Requests |-> [CutOff(to[r])[r] EXCEPT !.entry = FALSE, !.cancelSub = FALSE]]
    /\ ns' = [n \in Namespaces |-> Ended(n, ns[n].stage)]
    /\ UNCHANGED <<fixed, swept, replies, cancels>>

-----------------------------------------------------------------------------
CallerNext(r) == Call(r) \/ TimeOut(r) \/ Leave(r) \/ \E o \in {"ok", "error"} : GetReply(r, o)
ServerNext(r) ==
    \/ StartTask(r) \/ Answer(r) \/ ServiceAnswer(r) \/ Open(r)
    \/ Track(r) \/ ServiceTrack(r) \/ Reply(r)
    \/ OnCancel(r) \/ CancelDone(r) \/ SweepOne(r)
HostNext(n) == Take(n) \/ RemoveTracked(n) \/ Stopped(n)

Next ==
    \/ \E r \in Requests : CallerNext(r) \/ ServerNext(r) \/ StreamEnds(r) \/ Emit(r)
    \/ \E n \in Range(to) : HostNext(n) \/ RemoveHandlers(n) \/ Stop(n)
    \/ Disconnect \/ Disconnected

Spec == Init /\ [][Next]_vars

(* The event loops run their tasks and messages arrive; handlers and their
   cleanups return.  A stream need not end, and nobody has to leave. *)
FairSpec ==
    /\ Spec
    /\ \A r \in Requests : WF_vars(ServerNext(r)) /\ WF_vars(\E o \in {"ok", "error"} : GetReply(r, o))
    /\ \A n \in Namespaces : WF_vars(HostNext(n))
    /\ WF_vars(Disconnected)

-----------------------------------------------------------------------------
(* Properties. *)

TypeOK ==
    /\ \A r \in Requests :
        /\ req[r].caller \in {"new", "waiting", "ok", "error", "timeout", "left"}
        /\ req[r].srv \in {"none", "queued", "task", "invoke", "subscribe", "reply", "streaming", "done", "cut"}
        /\ req[r].resource \in {"none", "open", "cancelled", "closed", "cut"}
        /\ req[r].emitted \in 0..MaxValues
    /\ \A n \in Namespaces :
        /\ ns[n].busy # Idle => req[ns[n].busy].srv \in {"invoke", "subscribe", "reply", "streaming"}
        /\ \A r \in Range(ns[n].queue) : req[r].srv = "queued"
    /\ closing \in {"no", "sweep", "closed"} /\ swept \subseteq Requests

Walked(n) == host = "service" \/ Handlers[n].decorators

(* Only what is marked for it runs, however the handlers are nested. *)
OnlyMarkedRuns ==
    \A r \in Requests : req[r].srv # "none" /\ Walked(to[r]) =>
        \E o \in DOMAIN Objects : Leads(Handlers[to[r]].root, call[r].path, o)

(* A call that is refused although the handlers are there is to a path that is
   not marked, to a nested method of a proxy, or to one of an object that is
   served under another path: only the first way to an object counts. *)
MarkedIsServed ==
    \A r \in Requests :
        /\ req[r].caller = "error" /\ req[r].srv = "none" /\ Resolves(r)
        /\ ns[to[r]].stage = "up" /\ closing = "no" /\ Walked(to[r])
        => \A o \in DOMAIN Objects : Leads(Handlers[to[r]].root, call[r].path, o) =>
                \E p \in Served(to[r]) : Last(p) = Last(call[r].path) /\ Leads(Handlers[to[r]].root, p, o)

(* What is marked is served, and nothing else is. *)
ServesWhatIsMarked == TypeOK /\ OnlyMarkedRuns /\ MarkedIsServed

(* A handler's own cleanup is started at most once, with a cancel message, the
   removal of the handlers and disconnect() racing for it. *)
CleanupOnce == \A r \in Requests : req[r].cleanups <= 1

(* What one namespace removes is its own: a session ends only when its caller
   leaves, its namespace goes or the whole client does. *)
OthersLive ==
    \A r \in Requests : req[r].cleaned =>
        req[r].caller = "left" \/ ns[to[r]].stage # "up" \/ closing # "no"

(* Removing the handlers of a client leaves nothing behind that was registered,
   even when the request was cut off before its reply. *)
RemovedIsClean ==
    \A r \in Requests :
        /\ host = "client" /\ ns[to[r]].stage = "removed"
        /\ r \in ns[to[r]].ids \/ (req[r].srv = "done" /\ req[r].resource = "open")
        => req[r].cleaned

(* A session is ended once, by those who may, and not forgotten. *)
SessionsEndOnce == CleanupOnce /\ OthersLive /\ RemovedIsClean

(* A request that holds up the message task, at a client and at a service. *)
Inline(r) == Route(call[r]) # "stream" /\ ~(host = "service" /\ call[r].chunked)

(* They start once, and each one after all that arrived before it. *)
KeepsOrder(arrived, started) ==
    /\ \A i, j \in DOMAIN started : Inline(started[i]) /\ started[i] = started[j] => i = j
    /\ \A j \in DOMAIN started : Inline(started[j]) =>
        \E k \in DOMAIN arrived :
            /\ arrived[k] = started[j]
            /\ \A h \in 1..(k - 1) : Inline(arrived[h]) => \E i \in 1..(j - 1) : started[i] = arrived[h]

(* Requests start in the order in which they arrive, except for streams and
   for chunked requests to a service; a client keeps chunked ones in order. *)
InOrder == \A n \in Namespaces : KeepsOrder(ns[n].arrived, ns[n].started)

(* A callback call that waits or has its answer misses no value, not even one
   emitted before the answer, unless the handler is a sync function. *)
NoValueMissed ==
    \A r \in Requests : req[r].missed > 0 => call[r].handler = "synccallback"

(* A callback call that succeeds at a client's handler is registered there
   until one side ends it. *)
OkMeansRegistered ==
    \A r \in Requests : host = "client" /\ Route(call[r]) = "callback" /\ req[r].caller = "ok" =>
        (req[r].entry /\ req[r].cancelSub) \/ req[r].cleaned \/ ns[to[r]].stage # "up" \/ closing # "no"

(* A caller that was told so is subscribed, and has all values. *)
Subscribed == OkMeansRegistered /\ NoValueMissed

(* Leaving a callback subscription reaches the handler: its cleanup runs and
   the cancel subscription goes, unless the handler's client disconnects: a
   session opened while disconnect() awaits the others is forgotten. *)
LeavingReleases ==
    \A r \in Requests : (host = "client" /\ req[r].caller = "left") ~>
        (closing # "no" \/ (~req[r].cancelSub /\ req[r].resource = "closed"))

(* A stream that never ends does not hold up the requests behind it. *)
NotHeldUp ==
    \A r \in Requests : (host = "client" /\ req[r].srv = "queued") ~> req[r].srv # "queued"
=============================================================================
