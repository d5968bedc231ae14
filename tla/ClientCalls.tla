----------------------------- MODULE ClientCalls -----------------------------
(***************************************************************************)
(* The request/response path of the Python RPCClient: call() with its      *)
(* no-responder retry, the muxed single attempt (_call_once), the service  *)
(* attempt with its own reply subscription (_call_once_service), the reply *)
(* dispatcher, the per-attempt timer, and the teardown that disconnect()   *)
(* and suspend() run through _cleanup_pending_requests().                  *)
(*                                                                         *)
(* The client is one asyncio loop.  An action is the code between two      *)
(* awaits; a task that awaits is a value of pc, the teardown that awaits   *)
(* is a value of tdPhase.  The NATS server and the responder are external. *)
(***************************************************************************)
EXTENDS Naturals, FiniteSets

CONSTANTS
    RpcCalls,       \* call() invocations on an "rpc." subject
    SvcCalls,       \* call() invocations on a service subject
    MaxRetries,     \* max_retries of the no-responder retry
    ErrKinds,       \* the errors a handler may answer with
    AppConnects,    \* the application calls connect() itself
    MaxTeardowns    \* bound: how many times disconnect()/suspend() is called

Calls == RpcCalls \cup SvcCalls

(* "err503" is an error response that the retry loop takes for a missing
   responder: code "503", or a text holding "no responders". *)
ASSUME CallsAssumption ==
    /\ RpcCalls \cap SvcCalls = {}
    /\ MaxRetries \in Nat
    /\ ErrKinds \subseteq {"err", "err503"}
    /\ AppConnects \in BOOLEAN
    /\ MaxTeardowns \in Nat

(* request_id: every attempt of a call generates a fresh one. *)
Ids == Calls \X (0..MaxRetries)

Answers == {"ok", "noresp"} \cup ErrKinds

VARIABLES
    conn,       \* self.nc: none, up, or closing (nc.close() not yet returned)
    closed,     \* self._closed
    ctask,      \* self._connection_task: none, dialing, or restoring entries
    restore,    \* reply entries left in the snapshot of _connect()'s loop
    muxTodo,    \* the mux entry is left in that snapshot
    muxSub,     \* the mux entry holds a live subscription
    pc,         \* where the task of a call is parked
    att,        \* attempt number of the retry loop
    fut,        \* the future of the current attempt
    src,        \* attempt whose answer settled that future
    timer,      \* the call_later handle of the current attempt is armed
    pending,    \* self.pending_requests
    entries,    \* reply entries in self._subscription_entries
    live,       \* reply subscriptions that exist on the connection
    inbox,      \* one-shot no-responder inboxes of service attempts
    hasUnsub,   \* the closure variable "unsubscribe" has been assigned
    net,        \* messages on the wire
    ran,        \* attempts whose handler was executed
    outcome,    \* what call() returned or raised
    tdKind,     \* the teardown that is running
    tdPhase,    \* where it is parked
    tdTodo,     \* rest of the snapshot _cleanup_pending_requests iterates
    tdHeld,     \* the request whose cleanup hook is being awaited
    teardowns

connVars == <<conn, closed, ctask, restore, muxTodo>>
svcVars  == <<entries, live, inbox, hasUnsub>>
tdVars   == <<tdKind, tdPhase, tdTodo, tdHeld, teardowns>>
vars == <<conn, closed, ctask, restore, muxTodo, muxSub, pc, att, fut, src, timer, pending,
          entries, live, inbox, hasUnsub, net, ran, outcome,
          tdKind, tdPhase, tdTodo, tdHeld, teardowns>>

PcStates == {"idle", "connecting", "connected", "ensuring", "subscribing",
             "inboxing", "publishing", "waiting", "backoff", "retry", "done"}
Settled  == Answers \cup {"timeout", "closed"}
Outcomes == Settled \cup {"none", "raised"}
Messages == Ids \X ({"req"} \cup Answers)

TypeOK ==
    /\ conn \in {"none", "up", "closing"}
    /\ closed \in BOOLEAN
    /\ ctask \in {"none", "dialing", "restoring"}
    /\ restore \subseteq Ids
    /\ muxTodo \in BOOLEAN
    /\ muxSub \in BOOLEAN
    /\ pc \in [Calls -> PcStates]
    /\ att \in [Calls -> 0..MaxRetries]
    /\ fut \in [Calls -> Settled \cup {"none", "pending"}]
    /\ src \in [Calls -> 0..MaxRetries]
    /\ timer \in [Calls -> BOOLEAN]
    /\ pending \subseteq Ids
    /\ entries \subseteq Ids
    /\ live \subseteq Ids
    /\ inbox \subseteq Ids
    /\ hasUnsub \in [Calls -> BOOLEAN]
    /\ net \subseteq Messages
    /\ ran \subseteq Ids
    /\ outcome \in [Calls -> Outcomes]
    /\ tdKind \in {"none", "disconnect", "suspend"}
    /\ tdPhase \in {"idle", "hook", "cleanups", "unsubbed", "closing"}
    /\ tdTodo \subseteq Ids
    /\ tdHeld \subseteq Ids
    /\ teardowns \in 0..MaxTeardowns

Init ==
    /\ conn = "none"
    /\ closed = FALSE
    /\ ctask = "none"
    /\ restore = {}
    /\ muxTodo = FALSE
    /\ muxSub = FALSE
    /\ pc = [c \in Calls |-> "idle"]
    /\ att = [c \in Calls |-> 0]
    /\ fut = [c \in Calls |-> "none"]
    /\ src = [c \in Calls |-> 0]
    /\ timer = [c \in Calls |-> FALSE]
    /\ pending = {}
    /\ entries = {}
    /\ live = {}
    /\ inbox = {}
    /\ hasUnsub = [c \in Calls |-> FALSE]
    /\ net = {}
    /\ ran = {}
    /\ outcome = [c \in Calls |-> "none"]
    /\ tdKind = "none"
    /\ tdPhase = "idle"
    /\ tdTodo = {}
    /\ tdHeld = {}
    /\ teardowns = 0

-----------------------------------------------------------------------------
(* Helpers. *)

Id(c) == <<c, att[c]>>

(* The request an id names is the attempt its call is now in. *)
Current(id) == id = Id(id[1])

IsConnected == conn = "up"

(* call() returns or raises: the task is over. *)
Finish(c, o) ==
    /\ pc' = [pc EXCEPT ![c] = "done"]
    /\ outcome' = [outcome EXCEPT ![c] = o]

(* set_result/set_exception under "if not future.done()". *)
Settle(c, o, k) ==
    IF fut[c] = "pending"
    THEN /\ fut' = [fut EXCEPT ![c] = o]
         /\ src' = [src EXCEPT ![c] = k]
    ELSE UNCHANGED <<fut, src>>

(* The variable "sub" of a service attempt holds its inbox: it is assigned when
   the inbox subscription has returned. *)
HasInbox(id) == id \in inbox /\ pc[id[1]] # "inboxing"

(* The subscriptions that the hooks of the requests ids give back: the inbox,
   and, once subscribe() has returned, the reply entry. *)
DropSubscriptions(ids) ==
    LET returned == {id \in ids : hasUnsub[id[1]]}
    IN  /\ inbox' = inbox \ {id \in ids : HasInbox(id)}
        /\ entries' = entries \ returned
        /\ live' = live \ returned
        /\ UNCHANGED hasUnsub

DropRequest(id) ==
    /\ pending' = pending \ {id}
    /\ timer' = IF id \in pending THEN [timer EXCEPT ![id[1]] = FALSE] ELSE timer

(* unsubscribe_all(): drop the pending request with its timer, and what the
   attempt has subscribed so far. *)
UnsubscribeAll(id) == DropRequest(id) /\ DropSubscriptions({id})

-----------------------------------------------------------------------------
(* connect() and the head of _call_once(). *)

Starting(c) == pc[c] \in {"idle", "retry"}

(* _call_once() has passed its "if not connected and not closed: connect()". *)
PastConnect(c) == pc[c] = "connected" \/ (Starting(c) /\ (IsConnected \/ closed))

(* connect(): one connection task is shared by everyone who waits for it. *)
StartConnecting ==
    ctask' = IF ctask = "none" THEN "dialing" ELSE ctask

AutoConnect(c) ==
    /\ Starting(c)
    /\ ~IsConnected /\ ~closed
    /\ StartConnecting
    /\ pc' = [pc EXCEPT ![c] = "connecting"]
    /\ UNCHANGED <<conn, closed, restore, muxTodo, muxSub, att, fut, src, timer,
                   pending, svcVars, net, ran, outcome, tdVars>>

(* The application calls connect(): the only way to revive a closed client. *)
ExplicitConnect ==
    /\ AppConnects
    /\ ~IsConnected
    /\ ctask = "none"
    /\ StartConnecting
    /\ UNCHANGED <<conn, closed, restore, muxTodo, muxSub, pc, att, fut, src, timer,
                   pending, svcVars, net, ran, outcome, tdVars>>

(* "self.nc = await connect()" has returned: the client is connected and open
   again for everyone who looks, the mux entry is registered, and the restore
   loop starts over a snapshot of the entries.  It awaits one subscribe() after
   the other, so calls go on without their mux in the meantime. *)
ConnectOpens ==
    /\ ctask = "dialing"
    /\ conn' = "up"
    /\ closed' = FALSE
    /\ ctask' = "restoring"
    /\ restore' = entries
    /\ muxTodo' = TRUE
    /\ UNCHANGED <<muxSub, pc, att, fut, src, timer, pending, svcVars,
                   net, ran, outcome, tdVars>>

(* _connect() returns when nothing is left of its snapshot, and everyone who
   waits for the task goes on. *)
ReturnOrGoOn(left, muxLeft) ==
    IF left = {} /\ ~muxLeft
    THEN /\ ctask' = "none"
         /\ pc' = [c \in Calls |-> IF pc[c] = "connecting" THEN "connected" ELSE pc[c]]
    ELSE UNCHANGED <<ctask, pc>>

(* The loop has an entry behind it: "sub is None or sub._closed" asked for a new
   subscription, which has returned, or the entry had one and is skipped. *)
RestoreEntry(id) ==
    /\ id \in restore
    /\ IsConnected \/ id \in live
    /\ restore' = restore \ {id}
    /\ live' = live \cup {id}
    /\ ReturnOrGoOn(restore \ {id}, muxTodo)
    /\ UNCHANGED <<conn, closed, muxTodo, muxSub, att, fut, src, timer, pending,
                   entries, inbox, hasUnsub, net, ran, outcome, tdVars>>

(* Mutant of RestoreMux: the subscription of an earlier connection is taken for a
   live one, and the entry is skipped. *)
RestoreMuxSkipped ==
    /\ muxTodo
    /\ muxTodo' = FALSE
    /\ ReturnOrGoOn(restore, FALSE)
    /\ UNCHANGED <<conn, closed, restore, muxSub, att, fut, src, timer, pending, svcVars,
                   net, ran, outcome, tdVars>>

(* The same for the mux entry. *)
RestoreMux ==
    /\ muxTodo
    /\ IsConnected \/ muxSub
    /\ muxTodo' = FALSE
    /\ muxSub' = TRUE
    /\ ReturnOrGoOn(restore, FALSE)
    /\ UNCHANGED <<conn, closed, restore, att, fut, src, timer, pending, svcVars,
                   net, ran, outcome, tdVars>>

(* Dialing fails, or a subscribe() of the loop meets a transport that a teardown
   has taken away; whoever awaits the task raises too. *)
ConnectFails ==
    /\ \/ ctask = "dialing"
       \/ ctask = "restoring" /\ ~IsConnected
    /\ ctask' = "none"
    /\ restore' = {}
    /\ muxTodo' = FALSE
    /\ pc' = [c \in Calls |-> IF pc[c] = "connecting" THEN "done" ELSE pc[c]]
    /\ outcome' = [c \in Calls |-> IF pc[c] = "connecting" THEN "raised" ELSE outcome[c]]
    /\ UNCHANGED <<conn, closed, muxSub, att, fut, src, timer, pending, svcVars,
                   net, ran, tdVars>>

(* "if not self.nc: raise RuntimeError". *)
NotConnected(c) ==
    /\ PastConnect(c)
    /\ conn = "none"
    /\ Finish(c, "raised")
    /\ UNCHANGED <<connVars, muxSub, att, fut, src, timer, pending, svcVars,
                   net, ran, tdVars>>

-----------------------------------------------------------------------------
(* The muxed attempt: _call_once() on an "rpc." subject. *)

(* Register the pending request with its timer and publish it.  A publish on
   a connection that is gone raises at once, and the request is popped. *)
RegisterAndPublish(c) ==
    \/ /\ IsConnected
       /\ pending' = pending \cup {Id(c)}
       /\ timer' = [timer EXCEPT ![c] = TRUE]
       /\ fut' = [fut EXCEPT ![c] = "pending"]
       /\ net' = net \cup {<<Id(c), "req">>}
       /\ pc' = [pc EXCEPT ![c] = "publishing"]
       /\ UNCHANGED outcome
    \/ /\ ~IsConnected
       /\ Finish(c, "raised")
       /\ UNCHANGED <<pending, timer, fut, net>>

(* _ensure_mux_subscription() is a no-op when the mux is subscribed. *)
CallMuxed(c) ==
    /\ c \in RpcCalls
    /\ PastConnect(c)
    /\ conn # "none"
    /\ muxSub
    /\ RegisterAndPublish(c)
    /\ UNCHANGED <<connVars, muxSub, att, src, svcVars, ran, tdVars>>

(* Otherwise it subscribes first; on a closing connection that raises. *)
EnsureMux(c) ==
    /\ c \in RpcCalls
    /\ PastConnect(c)
    /\ conn # "none"
    /\ ~muxSub
    /\ \/ /\ conn = "up"
          /\ muxSub' = TRUE
          /\ pc' = [pc EXCEPT ![c] = "ensuring"]
          /\ UNCHANGED outcome
       \/ /\ conn = "closing"
          /\ Finish(c, "raised")
          /\ UNCHANGED muxSub
    /\ UNCHANGED <<connVars, att, fut, src, timer, pending, svcVars, net, ran, tdVars>>

MuxEnsured(c) ==
    /\ pc[c] = "ensuring"
    /\ RegisterAndPublish(c)
    /\ UNCHANGED <<connVars, muxSub, att, src, svcVars, ran, tdVars>>

-----------------------------------------------------------------------------
(* The service attempt: _call_once_service(). *)

(* Arm the timer, store the pending request, await subscribe(reply_subject).
   subscribe() stores its entry first, so an exception of the NATS
   subscription leaves the entry behind. *)
ServiceSubscribe(c) ==
    /\ c \in SvcCalls
    /\ PastConnect(c)
    /\ conn # "none"
    /\ pending' = pending \cup {Id(c)}
    /\ timer' = [timer EXCEPT ![c] = TRUE]
    /\ fut' = [fut EXCEPT ![c] = "pending"]
    /\ hasUnsub' = [hasUnsub EXCEPT ![c] = FALSE]
    /\ entries' = entries \cup {Id(c)}
    /\ \/ /\ conn = "up"
          /\ live' = live \cup {Id(c)}
          /\ pc' = [pc EXCEPT ![c] = "subscribing"]
          /\ UNCHANGED outcome
       \/ /\ conn = "closing"
          /\ Finish(c, "raised")
          /\ UNCHANGED live
    /\ UNCHANGED <<connVars, muxSub, att, src, inbox, net, ran, tdVars>>

(* subscribe() returns; the inbox is subscribed outside the try block, so an
   exception here runs no cleanup. *)
ServiceInbox(c) ==
    /\ pc[c] = "subscribing"
    /\ hasUnsub' = [hasUnsub EXCEPT ![c] = TRUE]
    /\ \/ /\ IsConnected
          /\ inbox' = inbox \cup {Id(c)}
          /\ pc' = [pc EXCEPT ![c] = "inboxing"]
          /\ UNCHANGED outcome
       \/ /\ ~IsConnected
          /\ Finish(c, "raised")
          /\ UNCHANGED inbox
    /\ UNCHANGED <<connVars, muxSub, att, fut, src, timer, pending, entries, live,
                   net, ran, tdVars>>

(* publish() with the inbox as reply; on a lost connection the except branch
   cleans up, the inbox that it has by now included, and re-raises. *)
ServicePublish(c) ==
    /\ pc[c] = "inboxing"
    /\ \/ /\ IsConnected
          /\ net' = net \cup {<<Id(c), "req">>}
          /\ pc' = [pc EXCEPT ![c] = "publishing"]
          /\ UNCHANGED <<outcome, pending, timer, svcVars>>
       \/ /\ ~IsConnected
          /\ DropRequest(Id(c))
          /\ inbox' = inbox \ {Id(c)}
          /\ entries' = entries \ {Id(c)}
          /\ live' = live \ {Id(c)}
          /\ Finish(c, "raised")
          /\ UNCHANGED <<hasUnsub, net>>
    /\ UNCHANGED <<connVars, muxSub, att, fut, src, ran, tdVars>>

-----------------------------------------------------------------------------
(* Both paths: the publish returns or raises, the answer is awaited. *)

PublishReturns(c) ==
    /\ pc[c] = "publishing"
    /\ pc' = [pc EXCEPT ![c] = "waiting"]
    /\ UNCHANGED <<connVars, muxSub, att, fut, src, timer, pending, svcVars,
                   net, ran, outcome, tdVars>>

(* A later chunk of a large request meets a connection that has gone: the
   responder never gets the whole request. *)
PublishRaises(c) ==
    /\ pc[c] = "publishing"
    /\ ~IsConnected
    /\ <<Id(c), "req">> \in net /\ Id(c) \notin ran
    /\ net' = net \ {<<Id(c), "req">>}
    /\ \/ /\ c \in RpcCalls
          /\ DropRequest(Id(c))
          /\ UNCHANGED svcVars
       \/ /\ c \in SvcCalls
          /\ UnsubscribeAll(Id(c))
    /\ Finish(c, "raised")
    /\ UNCHANGED <<connVars, muxSub, att, fut, src, ran, tdVars>>

(* Mutants of Timeout: the request stays registered; its caller is not told. *)
TimeoutKeepsRequest(c) ==
    /\ timer[c]
    /\ timer' = [timer EXCEPT ![c] = FALSE]
    /\ IF Id(c) \in pending THEN Settle(c, "timeout", att[c]) ELSE UNCHANGED <<fut, src>>
    /\ UNCHANGED <<connVars, muxSub, pc, att, pending, svcVars, net, ran, outcome, tdVars>>

TimeoutUnsettled(c) ==
    /\ timer[c]
    /\ timer' = [timer EXCEPT ![c] = FALSE]
    /\ pending' = pending \ {Id(c)}
    /\ UNCHANGED <<connVars, muxSub, pc, att, fut, src, svcVars, net, ran, outcome, tdVars>>

(* handle_timeout(). *)
Timeout(c) ==
    /\ timer[c]
    /\ timer' = [timer EXCEPT ![c] = FALSE]
    /\ pending' = pending \ {Id(c)}
    /\ IF Id(c) \in pending THEN Settle(c, "timeout", att[c]) ELSE UNCHANGED <<fut, src>>
    /\ UNCHANGED <<connVars, muxSub, pc, att, svcVars, net, ran, outcome, tdVars>>

(* Mutant of Retries: any failure is retried. *)
RetriesAnyFailure(c) == fut[c] # "ok" /\ att[c] < MaxRetries /\ ~closed

(* The test of _with_no_responder_retry(). *)
Retries(c) ==
    /\ fut[c] \in {"noresp", "err503"}
    /\ att[c] < MaxRetries
    /\ ~closed

(* "await future" returns or raises; a service attempt that raises runs
   unsubscribe_all() on the way out. *)
Wake(c) ==
    /\ pc[c] = "waiting"
    /\ fut[c] # "pending"
    /\ IF c \in SvcCalls /\ fut[c] # "ok"
       THEN UnsubscribeAll(Id(c))
       ELSE UNCHANGED <<pending, timer, svcVars>>
    /\ \/ /\ Retries(c)
          /\ pc' = [pc EXCEPT ![c] = "backoff"]
          /\ UNCHANGED outcome
       \/ /\ ~Retries(c)
          /\ Finish(c, fut[c])
    /\ UNCHANGED <<connVars, muxSub, att, fut, src, net, ran, tdVars>>

(* asyncio.sleep(delay) is over: the next attempt, with a fresh id. *)
Backoff(c) ==
    /\ pc[c] = "backoff"
    /\ pc' = [pc EXCEPT ![c] = "retry"]
    /\ att' = [att EXCEPT ![c] = @ + 1]
    /\ fut' = [fut EXCEPT ![c] = "none"]
    /\ UNCHANGED <<connVars, muxSub, src, timer, pending, svcVars, net, ran, outcome, tdVars>>

-----------------------------------------------------------------------------
(* The answers. *)

(* External: a responder runs the handler and answers, or dies after it.
   register_handler() joins no queue group unless asked, so a second responder
   (the bound is two) may have the request too.  Without any, the server
   answers 503 on the reply subject. *)
Respond(id) ==
    /\ <<id, "req">> \in net
    /\ \/ \E a \in {"ok"} \cup ErrKinds, others \in SUBSET {<<id, "req">>} :
             /\ others # {} => id \notin ran
             /\ ran' = ran \cup {id}
             /\ net' = (net \ {<<id, "req">>}) \cup others \cup {<<id, a>>}
       \/ /\ ran' = ran \cup {id}
          /\ net' = net \ {<<id, "req">>}
       \/ /\ id \notin ran
          /\ net' = (net \ {<<id, "req">>}) \cup {<<id, "noresp">>}
          /\ UNCHANGED ran
    /\ UNCHANGED <<connVars, muxSub, pc, att, fut, src, timer, pending, svcVars,
                   outcome, tdVars>>

(* External: NATS delivers at most once. *)
Lose(m) ==
    /\ m \in net
    /\ net' = net \ {m}
    /\ UNCHANGED <<connVars, muxSub, pc, att, fut, src, timer, pending, svcVars,
                   ran, outcome, tdVars>>

(* Mutant of RouteMux: an answer settles its call whatever attempt it is for. *)
RouteMuxByCall(id, a) ==
    /\ id[1] \in RpcCalls
    /\ muxSub
    /\ <<id, a>> \in net
    /\ net' = net \ {<<id, a>>}
    /\ pending' = pending \ {Id(id[1])}
    /\ timer' = [timer EXCEPT ![id[1]] = FALSE]
    /\ Settle(id[1], a, id[2])
    /\ UNCHANGED <<connVars, muxSub, pc, att, svcVars, ran, outcome, tdVars>>

(* _handle_mux_message()/_route_mux_response(): pop the pending request the
   id names, cancel its timer, settle its future; unknown ids are dropped. *)
RouteMux(id, a) ==
    /\ id[1] \in RpcCalls
    /\ muxSub
    /\ <<id, a>> \in net
    /\ net' = net \ {<<id, a>>}
    /\ pending' = pending \ {id}
    /\ IF id \in pending
       THEN /\ timer' = [timer EXCEPT ![id[1]] = FALSE]
            /\ Settle(id[1], a, id[2])
       ELSE UNCHANGED <<timer, fut, src>>
    /\ UNCHANGED <<connVars, muxSub, pc, att, svcVars, ran, outcome, tdVars>>

(* handle_rpc_response(): settle, then tear the subscriptions down. *)
ServiceReply(id, a) ==
    /\ id \in live
    /\ a # "noresp"
    /\ <<id, a>> \in net
    /\ net' = net \ {<<id, a>>}
    /\ IF id \in pending
       THEN /\ UnsubscribeAll(id)
            /\ Settle(id[1], a, id[2])
       ELSE UNCHANGED <<pending, timer, svcVars, fut, src>>
    /\ UNCHANGED <<connVars, muxSub, pc, att, ran, outcome, tdVars>>

(* request_callback(): the 503 status on the one-shot inbox. *)
ServiceNoResponders(id) ==
    /\ id \in inbox
    /\ <<id, "noresp">> \in net
    /\ net' = net \ {<<id, "noresp">>}
    /\ Current(id)
    /\ UnsubscribeAll(id)
    /\ Settle(id[1], "noresp", id[2])
    /\ UNCHANGED <<connVars, muxSub, pc, att, ran, outcome, tdVars>>

-----------------------------------------------------------------------------
(* disconnect() and suspend(). *)

(* Mutant of SettleClosed: the sweep forgets the callers. *)
SettleNone(ids) == UNCHANGED fut

(* The futures of the current attempts among ids are settled. *)
SettleClosed(ids) ==
    fut' = [c \in Calls |->
              IF Id(c) \in ids /\ fut[c] = "pending" THEN "closed" ELSE fut[c]]

CancelTimers(ids) ==
    timer' = [c \in Calls |-> timer[c] /\ Id(c) \notin ids]

(* The cleanup hook of a service request has something to await.  While its
   subscribe() is under way there is neither "unsubscribe" nor "sub" yet: the
   hook then returns without yielding. *)
HookAwaits(id) ==
    /\ id[1] \in SvcCalls
    /\ HasInbox(id) \/ (hasUnsub[id[1]] /\ id \in live)

(* One uninterrupted run of the loop of _cleanup_pending_requests() over what
   is left of its snapshot, after the hook of held has returned.  It goes
   through the requests run, muxed ones and those whose hook does not suspend,
   and comes to the end or to a hook that does. *)
SweepRun(todo, held) ==
    \E run \in SUBSET todo :
      LET services == {id \in run : id[1] \in SvcCalls} IN
      \/ /\ run = todo
         /\ SettleClosed(todo \cup held)
         /\ CancelTimers(todo)
         /\ pending' = {}
         /\ DropSubscriptions(services)
         /\ tdPhase' = "cleanups"
         /\ tdTodo' = {}
         /\ tdHeld' = {}
      \/ \E hook \in {id \in todo \ run : HookAwaits(id)} :
         /\ SettleClosed(run \cup held)
         /\ CancelTimers(run \cup {hook})
         /\ pending' = pending \ (services \cup {hook})
         /\ DropSubscriptions(services \cup {hook})
         /\ tdPhase' = "hook"
         /\ tdTodo' = todo \ (run \cup {hook})
         /\ tdHeld' = {hook}

TeardownStart(kind) ==
    /\ tdKind = "none"
    /\ teardowns < MaxTeardowns
    /\ teardowns' = teardowns + 1
    /\ tdKind' = kind
    /\ closed' = (closed \/ kind = "disconnect")
    /\ SweepRun(pending, {})
    /\ UNCHANGED <<conn, ctask, restore, muxTodo, muxSub, pc, att, src, net, ran,
                   outcome>>

TeardownHookDone ==
    /\ tdPhase = "hook"
    /\ SweepRun(tdTodo, tdHeld)
    /\ UNCHANGED <<connVars, muxSub, pc, att, src, net, ran, outcome, tdKind, teardowns>>

(* Unsubscribe every entry; disconnect() also forgets the entries.  An entry
   whose subscribe() has not returned has no subscription to drop yet. *)
TeardownUnsubscribe ==
    /\ tdPhase = "cleanups"
    /\ muxSub' = FALSE
    /\ live' = {id \in live : pc[id[1]] = "subscribing"}
    /\ entries' = IF tdKind = "disconnect" THEN {} ELSE entries
    /\ tdPhase' = "unsubbed"
    /\ UNCHANGED <<connVars, pc, att, fut, src, timer, pending, inbox, hasUnsub,
                   net, ran, outcome, tdKind, tdTodo, tdHeld, teardowns>>

(* "if self.nc: await self.nc.close()": the transport takes every
   subscription with it.  Without a transport the teardown is over. *)
TeardownClose ==
    /\ tdPhase = "unsubbed"
    /\ \/ /\ conn = "none"
          /\ tdPhase' = "idle"
          /\ tdKind' = "none"
          /\ UNCHANGED <<conn, muxSub, live, inbox>>
       \/ /\ conn # "none"
          /\ conn' = "closing"
          /\ muxSub' = FALSE
          /\ live' = {}
          /\ inbox' = {}
          /\ tdPhase' = "closing"
          /\ UNCHANGED tdKind
    /\ UNCHANGED <<closed, ctask, restore, muxTodo, pc, att, fut, src, timer, pending,
                   entries, hasUnsub, net, ran, outcome, tdTodo, tdHeld, teardowns>>

(* close() has returned or timed out: "self.nc = None", whatever nc is now. *)
TeardownEnd ==
    /\ tdPhase = "closing"
    /\ conn' = "none"
    /\ tdKind' = "none"
    /\ tdPhase' = "idle"
    /\ UNCHANGED <<closed, ctask, restore, muxTodo, muxSub, pc, att, fut, src, timer,
                   pending, svcVars, net, ran, outcome, tdTodo, tdHeld, teardowns>>

-----------------------------------------------------------------------------
(* What the task of a call does when the loop runs it. *)
TaskStep(c) ==
    \/ AutoConnect(c) \/ NotConnected(c)
    \/ CallMuxed(c) \/ EnsureMux(c) \/ MuxEnsured(c)
    \/ ServiceSubscribe(c) \/ ServiceInbox(c) \/ ServicePublish(c)
    \/ PublishReturns(c) \/ PublishRaises(c)
    \/ Wake(c) \/ Backoff(c)

(* What the shared connection task does. *)
ConnectStep ==
    \/ ConnectOpens \/ ConnectFails \/ RestoreMux
    \/ \E id \in Ids : RestoreEntry(id)

TeardownStep ==
    \/ TeardownHookDone \/ TeardownUnsubscribe \/ TeardownClose \/ TeardownEnd

Next ==
    \/ \E c \in Calls : TaskStep(c) \/ Timeout(c)
    \/ ExplicitConnect \/ ConnectStep
    \/ \E id \in Ids : Respond(id) \/ ServiceNoResponders(id)
    \/ \E id \in Ids, a \in Answers : RouteMux(id, a) \/ ServiceReply(id, a)
    \/ \E m \in net : Lose(m)
    \/ \E kind \in {"disconnect", "suspend"} : TeardownStart(kind)
    \/ TeardownStep

Spec == Init /\ [][Next]_vars

(* The loop runs every ready task and every due timer.  Nothing is assumed of
   the network, the responder, the application, or of connect(): with
   max_reconnect_attempts = -1 it may retry for ever. *)
FairSpec ==
    /\ Spec
    /\ \A c \in Calls : /\ WF_vars(TaskStep(c) /\ pc[c] # "idle")
                        /\ WF_vars(Timeout(c))
    /\ WF_vars(TeardownStep)

-----------------------------------------------------------------------------
(* Properties. *)

(* The attempt is under way: it is registered and its caller is parked. *)
InFlight(c) == pc[c] \in {"subscribing", "inboxing", "publishing", "waiting"}

(* handle_timeout(), _route_mux_response() and _cleanup_pending_requests() all
   pop a request and settle its future in one go: what is still registered is
   the attempt its call is in now, nothing but a teardown has settled it, and
   while it is unsettled its timer is armed. *)
PendingLive ==
    \A id \in pending :
        /\ Current(id)
        /\ fut[id[1]] \in {"pending", "closed"}
        /\ fut[id[1]] = "pending" => timer[id[1]]

(* A caller parked on an unsettled future can still be reached: by its timer,
   by the dispatcher through pending_requests, or by the teardown that
   _cleanup_pending_requests() is running. *)
NoLostCall ==
    \A c \in Calls :
        InFlight(c) /\ fut[c] = "pending" =>
            \/ Id(c) \in pending /\ timer[c]
            \/ Id(c) \in tdHeld \cup tdTodo

(* _route_mux_response() drops unknown ids: a late answer to an earlier
   attempt never settles a later one, and a value is returned only by an
   attempt whose handler ran. *)
Integrity ==
    \A c \in Calls : fut[c] = "ok" => src[c] = att[c] /\ Id(c) \in ran

(* _connect() and _ensure_mux_subscription(): a client that is connected, and
   not being torn down, has its reply inbox, except while the restore loop of
   _connect() still has the mux entry to do.  However a connection attempt and
   a teardown overlap, no connection is left without the inbox. *)
MuxReady ==
    conn = "up" /\ tdPhase = "idle" =>
        muxSub \/ (ctask = "restoring" /\ muxTodo)

(* call() raises NoRespondersError only when no handler ran the request: the
   retry of _with_no_responder_retry() never repeats an execution. *)
NoRespondersMeansNotRun ==
    \A c \in Calls : outcome[c] = "noresp" => \A id \in ran : id[1] # c

(* Seen from outside: how a call ended, without the reasons it may fail for. *)
Reported(c) ==
    IF outcome[c] \in {"none", "ok", "noresp"} THEN outcome[c]
    ELSE IF outcome[c] \in ErrKinds THEN "error" ELSE "failed"

Remote == INSTANCE RemoteCall WITH
    attempt <- att, outcome <- [c \in Calls |-> Reported(c)], Repeats <- "err503" \in ErrKinds

(* call() is a remote call: its retry repeats only what nobody ran, a call that
   returns a value or a handler's error was run in its last attempt, and after
   NoRespondersError no handler begins to run it any more. *)
IsRemoteCall == Remote!Spec

(* Every call that got past connect() returns or raises (or goes back to
   waiting for a connection), whatever the network and teardowns do. *)
CallEnds ==
    \A c \in Calls :
        pc[c] \notin {"idle", "connecting"} ~> pc[c] \in {"done", "connecting"}
=============================================================================
