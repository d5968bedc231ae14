--------------------------- MODULE Endpoint_proof ---------------------------
(***************************************************************************)
(* Proofs about Endpoint, for any set of requests, namespaces, handlers    *)
(* and calls: a session is ended once and by those who may, a caller that  *)
(* was told that it is subscribed is, and misses no value, and what holds  *)
(* up the message task starts in the order in which it arrived.            *)
(*                                                                         *)
(* The argument follows a request from the queue of its namespace to the   *)
(* cleanup of what it opened.  A request in the hands of a message task is *)
(* known to its namespace, so the end of the subscription cuts it off;     *)
(* what was registered before that is in the namespace's ids, and has an   *)
(* entry until its cleanup ran.  The removal of the handlers therefore     *)
(* finds all of it, with a disconnect() under way as well: that has taken  *)
(* its snapshot of the entries, and nothing new is registered.             *)
(*                                                                         *)
(* For the order, what waits in the queue is the end of what arrived, and  *)
(* all that arrived before it and is no task has started (OrderInv).       *)
(*                                                                         *)
(* What a server works on is a path that it serves, and what it serves is  *)
(* what the walk over its handlers object found: that this is what is      *)
(* marked is shown for any graph of objects (WalkFindsWhatIsMarked).       *)
(***************************************************************************)
EXTENDS Endpoint, TLAPS, FiniteSetTheorems, WellFoundedInduction

Working == {"invoke", "subscribe", "reply", "streaming"}

(* A request, and the handlers of a namespace. *)
Slots ==
    [caller : {"new", "waiting", "ok", "error", "timeout", "left"},
     srv : {"none", "queued", "task", "done", "cut"} \cup Working,
     resource : {"none", "open", "cancelled", "closed", "cut"},
     cleaned : BOOLEAN, cleanups : Nat, cancelSub : BOOLEAN, entry : BOOLEAN,
     listening : BOOLEAN, emitted : 0..MaxValues, missed : Nat]

Tables ==
    [stage : {"up", "removing", "stopping", "removed"}, queue : Seq(Requests),
     busy : Requests \cup {Idle}, ids : SUBSET Requests,
     arrived : Seq(Requests), started : Seq(Requests)]

ShapeInv ==
    /\ host \in {"client", "service"} /\ to \in [Requests -> Namespaces] /\ call \in [Requests -> Shapes]
    /\ req \in [Requests -> Slots] /\ ns \in [Namespaces -> Tables]
    /\ closing \in {"no", "sweep", "closed"} /\ swept \subseteq Requests
    /\ replies \subseteq Requests \X {"ok", "error"} /\ cancels \subseteq Requests

(* A call is answered once, when its handler is done, and only while it waits. *)
CallerInv ==
    \A r \in Requests :
        /\ req[r].caller = "new" => req[r].srv = "none"
        /\ <<r, "ok">> \in replies \/ <<r, "error">> \in replies =>
              req[r].caller = "waiting" /\ req[r].srv = "done" /\ Route(call[r]) # "stream"
        /\ <<r, "ok">> \in replies => <<r, "error">> \notin replies

(* A callback call listens while it waits and after its answer, and only a caller
   that left cancels. *)
ListenInv ==
    \A r \in Requests :
        /\ Route(call[r]) = "callback" /\ req[r].caller \in {"waiting", "ok"} => req[r].listening
        /\ r \in cancels => req[r].caller = "left"

Distinct(q) == \A i, j \in 1..Len(q) : q[i] = q[j] => i = j

(* A request is in the queue of its namespace, then in the hands of its message
   task or of a task of its own. *)
QueueInv ==
    /\ \A n \in Namespaces :
        /\ Distinct(ns[n].queue)
        /\ \A r \in Requests :
            /\ r \in Range(ns[n].queue) => to[r] = n /\ req[r].srv = "queued"
            /\ ns[n].busy = r => to[r] = n /\ req[r].srv \in Working
    /\ \A r \in Requests :
        /\ req[r].srv = "queued" => r \in Range(ns[to[r]].queue)
        /\ req[r].srv = "task" => AsTask(r)
        /\ req[r].srv \in Working => AsTask(r) \/ ns[to[r]].busy = r

(* What a request has opened. *)
OpenInv ==
    \A r \in Requests :
        /\ req[r].srv \in {"none", "queued", "task", "invoke"} => req[r].resource = "none"
        /\ req[r].srv \in {"subscribe", "reply"} => Handled(r) \notin {"stream", "normal"}
        /\ req[r].srv = "streaming" => Handled(r) = "stream"
        /\ req[r].resource = "open" => Fits(r)
        /\ req[r].resource = "cancelled" => req[r].cleaned

(* What is registered is in the ids of its namespace, from before the answer. *)
IdsInv ==
    \A r \in Requests :
        /\ \A n \in Namespaces : r \in ns[n].ids => to[r] = n /\ req[r].srv \in {"reply", "done", "cut"}
        /\ req[r].srv = "reply" => r \in ns[to[r]].ids
        /\ req[r].srv = "done" /\ req[r].resource = "open" => r \in ns[to[r]].ids

(* So is what a caller was told of, and what there is a cleanup for. *)
TrackedInv ==
    \A r \in Requests :
        /\ host = "client" /\ Route(call[r]) = "callback" =>
              (req[r].caller = "ok" \/ <<r, "ok">> \in replies => r \in ns[to[r]].ids)
        /\ req[r].entry => r \in ns[to[r]].ids
        /\ req[r].cancelSub => r \in ns[to[r]].ids
        /\ r \in swept => r \in ns[to[r]].ids
        /\ r \in cancels => r \in ns[to[r]].ids

(* It is cleaned up once, and has its entry until then. *)
CleanInv ==
    \A r \in Requests :
        /\ req[r].cleaned => req[r].cleanups = 1
        /\ ~req[r].cleaned => req[r].cleanups = 0
        /\ host = "client" /\ r \in ns[to[r]].ids =>
              (req[r].entry /\ req[r].cancelSub) \/ req[r].cleaned \/ closing = "closed"
        /\ r \in swept => ns[to[r]].stage # "up" \/ closing # "no"

(* Once the handlers are removed nothing new is registered, and what is has not
   escaped a disconnect(). *)
RemoveInv ==
    /\ closing # "no" => host = "client"
    /\ closing = "closed" => swept = {}
    /\ \A n \in Namespaces : ns[n].stage = "stopping" => host = "service"
    /\ \A r \in Requests : host = "client" /\ ns[to[r]].stage \in {"removing", "removed"} =>
        /\ req[r].srv # "queued" /\ (req[r].srv \in Working => AsTask(r))
        /\ r \in ns[to[r]].ids =>
              req[r].cleaned \/ (req[r].entry /\ (closing = "no" \/ r \in swept))
        /\ r \in ns[to[r]].ids /\ ns[to[r]].stage = "removed" => req[r].cleaned

EndInv ==
    /\ ShapeInv /\ CallerInv /\ ListenInv /\ QueueInv /\ OpenInv
    /\ IdsInv /\ TrackedInv /\ CleanInv /\ RemoveInv /\ OthersLive /\ NoValueMissed

-----------------------------------------------------------------------------
(* What the steps do to the fields of the records, one effect per definition. *)

Only(r) ==
    /\ req' \in [Requests -> Slots]
    /\ \A q \in Requests : q # r => req'[q] = req[q]

SameCaller(r) == req'[r].caller = req[r].caller /\ req'[r].listening = req[r].listening
SameWork(r) == req'[r].srv = req[r].srv /\ req'[r].resource = req[r].resource
SameClean(r) ==
    /\ req'[r].cleaned = req[r].cleaned /\ req'[r].cleanups = req[r].cleanups
    /\ req'[r].cancelSub = req[r].cancelSub /\ req'[r].entry = req[r].entry
SameValues(r) == req'[r].missed = req[r].missed

OnlyNs(n) ==
    /\ ns' \in [Namespaces -> Tables]
    /\ \A m \in Namespaces : m # n => ns'[m] = ns[m]

SameStage(n) == ns'[n].stage = ns[n].stage /\ ns'[n].ids = ns[n].ids
SameQueue(n) == ns'[n].queue = ns[n].queue

CallsIn(r) ==
    /\ UNCHANGED <<fixed, closing, swept, replies, cancels>>
    /\ req[r].caller = "new" /\ ns[to[r]].stage \in {"up", "stopping"} /\ closing # "closed"
    /\ call[r].path \in Served(to[r])
    /\ Only(r) /\ SameClean(r) /\ SameValues(r)
    /\ req'[r].caller = "waiting" /\ req'[r].srv = "queued" /\ req'[r].resource = req[r].resource
    /\ Route(call[r]) = "callback" => req'[r].listening
    /\ OnlyNs(to[r]) /\ SameStage(to[r])
    /\ ns'[to[r]].queue = Append(ns[to[r]].queue, r) /\ ns'[to[r]].busy = ns[to[r]].busy

CallFails(r) ==
    /\ UNCHANGED <<fixed, ns, closing, swept, replies, cancels>>
    /\ req[r].caller = "new"
    /\ Only(r) /\ SameClean(r) /\ SameValues(r) /\ SameWork(r)
    /\ req'[r].caller = "error"

Hears(r, o) ==
    /\ UNCHANGED <<fixed, ns, closing, swept, cancels>>
    /\ <<r, o>> \in replies /\ replies' = replies \ {<<r, o>>}
    /\ Only(r) /\ SameClean(r) /\ SameValues(r) /\ SameWork(r)
    /\ req'[r].caller = o /\ (o = "ok" => req'[r].listening = req[r].listening)

GivesUp(r) ==
    /\ UNCHANGED <<fixed, ns, closing, swept, cancels>>
    /\ req[r].caller = "waiting" /\ replies' = {m \in replies : m[1] # r}
    /\ Only(r) /\ SameClean(r) /\ SameValues(r) /\ SameWork(r)
    /\ req'[r].caller = "timeout"

Leaves(r) ==
    /\ UNCHANGED <<fixed, ns, closing, swept, replies>>
    /\ req[r].caller = "ok"
    /\ cancels' = cancels \/ (cancels' = cancels \cup {r} /\ req[r].cancelSub)
    /\ Only(r) /\ SameClean(r) /\ SameValues(r) /\ SameWork(r)
    /\ req'[r].caller = "left"

Takes(n, r) ==
    /\ UNCHANGED <<fixed, closing, swept, replies, cancels>>
    /\ ns[n].queue # <<>> /\ r = Head(ns[n].queue) /\ ns[n].busy = Idle
    /\ Only(r) /\ SameCaller(r) /\ SameClean(r) /\ SameValues(r) /\ req'[r].resource = req[r].resource
    /\ OnlyNs(n) /\ SameStage(n) /\ ns'[n].queue = Tail(ns[n].queue)
    /\ \/ AsTask(r) /\ req'[r].srv = "task" /\ ns'[n].busy = Idle
       \/ ~AsTask(r) /\ req'[r].srv = "invoke" /\ ns'[n].busy = r

Begins(r) ==
    /\ UNCHANGED <<fixed, closing, swept, replies, cancels>>
    /\ req[r].srv = "task" /\ req'[r].srv = "invoke" /\ req'[r].resource = req[r].resource
    /\ Only(r) /\ SameCaller(r) /\ SameClean(r) /\ SameValues(r)
    /\ OnlyNs(to[r]) /\ SameStage(to[r]) /\ SameQueue(to[r]) /\ ns'[to[r]].busy = ns[to[r]].busy

(* The request leaves the hands of the message task. *)
LetsGo(r) ==
    /\ OnlyNs(to[r]) /\ SameStage(to[r]) /\ SameQueue(to[r])
    /\ ns'[to[r]].busy = Freed(to[r], r)

Sends(r, o) ==
    \/ replies' = replies
    \/ req[r].caller = "waiting" /\ Route(call[r]) # "stream" /\ replies' = replies \cup {<<r, o>>}

Returns(r) ==
    /\ UNCHANGED <<fixed, closing, swept, cancels>>
    /\ req[r].srv = "invoke" /\ req'[r].srv = "done" /\ req'[r].resource = req[r].resource
    /\ Only(r) /\ SameCaller(r) /\ SameClean(r) /\ SameValues(r) /\ LetsGo(r)

Answers(r) ==
    /\ Returns(r)
    /\ \/ Sends(r, "error")
       \/ Sends(r, "ok") /\ (host = "client" => Route(call[r]) # "callback")

Opens(r) ==
    /\ UNCHANGED <<fixed, ns, closing, swept, replies, cancels>>
    /\ req[r].srv = "invoke" /\ Fits(r) /\ Handled(r) # "normal"
    /\ req'[r].resource = "open"
    /\ \/ Handled(r) = "stream" /\ req'[r].srv = "streaming"
       \/ Handled(r) # "stream" /\ req'[r].srv = "subscribe"
    /\ Only(r) /\ SameCaller(r) /\ SameClean(r) /\ SameValues(r)

StreamDone(r) ==
    /\ UNCHANGED <<fixed, closing, swept, replies, cancels>>
    /\ req[r].srv = "streaming" /\ req'[r].srv = "done" /\ req'[r].resource = "closed"
    /\ req'[r].caller = req[r].caller \/ (req[r].caller = "waiting" /\ req'[r].caller = "ok")
    /\ Only(r) /\ SameClean(r) /\ SameValues(r) /\ req'[r].listening = req[r].listening /\ LetsGo(r)

Tracks(r) ==
    /\ UNCHANGED <<fixed, closing, swept, replies, cancels>>
    /\ req[r].srv = "subscribe" /\ req'[r].srv = "reply" /\ req'[r].resource = req[r].resource
    /\ req'[r].entry = TRUE /\ req'[r].cancelSub = TRUE
    /\ req'[r].cleaned = req[r].cleaned /\ req'[r].cleanups = req[r].cleanups
    /\ Only(r) /\ SameCaller(r) /\ SameValues(r)
    /\ OnlyNs(to[r]) /\ SameQueue(to[r]) /\ ns'[to[r]].ids = ns[to[r]].ids \cup {r}
    /\ ns'[to[r]].busy = ns[to[r]].busy /\ ns'[to[r]].stage = ns[to[r]].stage

Replies(r) ==
    /\ UNCHANGED <<fixed, closing, swept, cancels>>
    /\ req[r].srv = "reply" /\ req'[r].srv = "done" /\ req'[r].resource = req[r].resource
    /\ Only(r) /\ SameCaller(r) /\ SameClean(r) /\ SameValues(r) /\ LetsGo(r) /\ Sends(r, "ok")

Emits(r) ==
    /\ UNCHANGED <<fixed, ns, closing, swept, replies, cancels>>
    /\ Handled(r) = "callback" /\ req[r].resource = "open" /\ req[r].caller \in {"waiting", "ok"}
    /\ Only(r) /\ SameCaller(r) /\ SameWork(r) /\ SameClean(r)
    /\ SameValues(r) \/ ~req[r].listening \/ call[r].handler # "callback"

(* The handler's cleanup is started, unless it was. *)
CleansUp(r) ==
    /\ Only(r) /\ SameCaller(r) /\ SameValues(r) /\ req'[r].srv = req[r].srv /\ req'[r].cleaned = TRUE
    /\ req[r].cleaned => req'[r].cleanups = req[r].cleanups
    /\ ~req[r].cleaned => req'[r].cleanups = req[r].cleanups + 1

Cancelled(r) ==
    /\ UNCHANGED <<fixed, ns, closing, swept, replies>>
    /\ r \in cancels /\ cancels' = cancels \ {r}
    /\ \/ req' = req
       \/ /\ CleansUp(r) /\ req'[r].entry = FALSE /\ req'[r].cancelSub = req[r].cancelSub
          /\ req'[r].resource = req[r].resource \/ req'[r].resource = "cancelled"

CancelEnds(r) ==
    /\ UNCHANGED <<fixed, ns, closing, swept, replies, cancels>>
    /\ req[r].resource = "cancelled" /\ req'[r].resource = "closed" /\ req'[r].srv = req[r].srv
    /\ req'[r].cancelSub = FALSE /\ req'[r].entry = req[r].entry
    /\ req'[r].cleaned = req[r].cleaned /\ req'[r].cleanups = req[r].cleanups
    /\ Only(r) /\ SameCaller(r) /\ SameValues(r)

CleansOut(r, entry) ==
    CleansUp(r) /\ req'[r].entry = entry /\ req'[r].cancelSub = FALSE /\ req'[r].resource \in {"cut", "closed"}

Removes(n, r) ==
    /\ UNCHANGED <<fixed, ns, closing, swept, replies, cancels>>
    /\ ns[n].stage = "removing" /\ r \in ns[n].ids
    /\ CleansOut(r, FALSE)

SweepsOne(r) ==
    /\ UNCHANGED <<fixed, ns, closing, replies, cancels>>
    /\ r \in swept /\ swept' = swept \ {r}
    /\ CleansOut(r, req[r].entry)

(* The stage of a namespace changes, and nothing else of it. *)
Stage(n, stage) ==
    OnlyNs(n) /\ SameQueue(n) /\ ns'[n].ids = ns[n].ids /\ ns'[n].busy = ns[n].busy /\ ns'[n].stage = stage

RemovesAll(n) ==
    /\ UNCHANGED <<fixed, req, closing, swept, replies, cancels>>
    /\ ns[n].stage = "removing" /\ (\A r \in ns[n].ids : ~req[r].entry) /\ Stage(n, "removed")

Stops(n) ==
    /\ UNCHANGED <<fixed, req, closing, replies, cancels>>
    /\ host = "service" /\ ns[n].stage = "up" /\ Stage(n, "stopping")
    /\ swept' \subseteq swept \cup ns[n].ids

Disconnects ==
    /\ UNCHANGED <<fixed, req, ns, replies, cancels>>
    /\ host = "client" /\ closing = "no" /\ closing' = "sweep"
    /\ swept' = {r \in Requests : req[r].entry}

(* The requests of a namespace are cut off with its message task. *)
Cut(n, r) == ns[n].busy = r \/ r \in Range(ns[n].queue)

CutsOff(n, r) ==
    /\ req'[r].srv = IF Cut(n, r) THEN "cut" ELSE req[r].srv
    /\ req'[r].resource = req[r].resource /\ SameCaller(r) /\ SameValues(r)
    /\ req'[r].cleaned = req[r].cleaned /\ req'[r].cleanups = req[r].cleanups

EndsTask(n) == ns'[n].queue = <<>> /\ ns'[n].busy = Idle /\ ns'[n].ids = ns[n].ids

RemovesTask(n) ==
    /\ UNCHANGED <<fixed, closing, swept, replies, cancels>>
    /\ host = "client" /\ ns[n].stage = "up" /\ closing = "no"
    /\ req' \in [Requests -> Slots]
    /\ \A r \in Requests : CutsOff(n, r) /\ SameClean(r)
    /\ OnlyNs(n) /\ EndsTask(n) /\ ns'[n].stage = "removing"

StopEnds(n) ==
    /\ UNCHANGED <<fixed, closing, swept, replies, cancels>>
    /\ ns[n].stage = "stopping" /\ req' \in [Requests -> Slots]
    /\ \A r \in Requests : (req'[r].entry => req[r].entry) /\ req'[r].cancelSub = req[r].cancelSub
    /\ \/ (\A r \in Requests : SameWork(r) /\ SameCaller(r) /\ SameValues(r)
              /\ req'[r].cleaned = req[r].cleaned /\ req'[r].cleanups = req[r].cleanups)
          /\ Stage(n, "removed")
       \/ (\A r \in Requests : CutsOff(n, r)) /\ OnlyNs(n) /\ EndsTask(n) /\ ns'[n].stage = "removed"

DisconnectEnds ==
    /\ UNCHANGED <<fixed, swept, replies, cancels>>
    /\ closing = "sweep" /\ swept = {} /\ closing' = "closed"
    /\ req' \in [Requests -> Slots] /\ ns' \in [Namespaces -> Tables]
    /\ \A r \in Requests : CutsOff(to[r], r) /\ ~req'[r].entry /\ ~req'[r].cancelSub
    /\ \A n \in Namespaces : EndsTask(n) /\ ns'[n].stage = ns[n].stage

Step ==
    \/ \E r \in Requests :
        \/ CallsIn(r) \/ CallFails(r) \/ GivesUp(r) \/ Leaves(r) \/ Begins(r) \/ Answers(r) \/ Opens(r)
        \/ StreamDone(r) \/ Tracks(r) \/ Replies(r) \/ Emits(r) \/ Cancelled(r) \/ CancelEnds(r) \/ SweepsOne(r)
        \/ \E o \in {"ok", "error"} : Hears(r, o)
        \/ \E n \in Namespaces : Takes(n, r) \/ Removes(n, r)
    \/ \E n \in Namespaces : RemovesAll(n) \/ Stops(n) \/ RemovesTask(n) \/ StopEnds(n)
    \/ Disconnects \/ DisconnectEnds

-----------------------------------------------------------------------------
LEMMA ReqEffect ==
    ASSUME req \in [Requests -> Slots], NEW r \in Requests, NEW s \in Slots, req' = [req EXCEPT ![r] = s]
    PROVE  Only(r) /\ req'[r] = s
BY DEF Only

LEMMA NsEffect ==
    ASSUME ns \in [Namespaces -> Tables], NEW n \in Namespaces, NEW t \in Tables, ns' = [ns EXCEPT ![n] = t]
    PROVE  OnlyNs(n) /\ ns'[n] = t
BY DEF OnlyNs

LEMMA RepliedSends ==
    ASSUME NEW r, NEW o, replies' = Replied(r, o)
    PROVE  Sends(r, o)
BY Zenon DEF Replied, Sends

(* The caller. *)
LEMMA CallDoes ==
    ASSUME ShapeInv, NEW r \in Requests, Call(r), Accepting(r)
    PROVE  CallsIn(r)
<1>1. req[r] \in Slots /\ req \in [Requests -> Slots] /\ ns \in [Namespaces -> Tables]
  BY DEF ShapeInv
<1>2. to[r] \in Namespaces /\ ns[to[r]] \in Tables
  BY <1>1 DEF ShapeInv
<1>3. Append(ns[to[r]].queue, r) \in Seq(Requests)
  BY <1>2 DEF Tables
<1>4. Append(ns[to[r]].arrived, r) \in Seq(Requests)
  BY <1>2 DEF Tables
<1>5. (Route(call[r]) = "callback") \in BOOLEAN
  OBVIOUS
<1> DEFINE s == [req[r] EXCEPT !.caller = "waiting", !.srv = "queued",
                               !.listening = (Route(call[r]) = "callback")]
           t == [ns[to[r]] EXCEPT !.queue = Append(ns[to[r]].queue, r),
                                  !.arrived = Append(ns[to[r]].arrived, r)]
<1>6. req' = [req EXCEPT ![r] = s] /\ ns' = [ns EXCEPT ![to[r]] = t]
  BY <1>1, <1>2, <1>3, <1>4, <1>5 DEF Call
<1>7. s \in Slots
  BY <1>1, <1>2, <1>3, <1>4, <1>5 DEF Slots, Working
<1>8. /\ s.caller = "waiting" /\ s.srv = "queued" /\ s.resource = req[r].resource
      /\ s.cleaned = req[r].cleaned /\ s.cleanups = req[r].cleanups
      /\ s.cancelSub = req[r].cancelSub /\ s.entry = req[r].entry
      /\ s.listening = (Route(call[r]) = "callback") /\ s.emitted = req[r].emitted
      /\ s.missed = req[r].missed
  BY <1>1, <1>2, <1>3, <1>4, <1>5 DEF Slots
<1>9. t \in Tables
  BY <1>1, <1>2, <1>3, <1>4, <1>5 DEF Tables
<1>10. /\ t.stage = ns[to[r]].stage /\ t.queue = Append(ns[to[r]].queue, r)
      /\ t.busy = ns[to[r]].busy /\ t.ids = ns[to[r]].ids
  BY <1>1, <1>2, <1>3, <1>4, <1>5 DEF Tables
<1> HIDE DEF s, t
<1>11. Only(r) /\ req'[r] = s
  BY <1>1, <1>6, <1>7, ReqEffect
<1>12. OnlyNs(to[r]) /\ ns'[to[r]] = t
  BY <1>1, <1>2, <1>3, <1>4, <1>5, <1>6, <1>9, NsEffect
<1>13. QED
  BY <1>1, <1>2, <1>3, <1>4, <1>5, <1>8, <1>11, <1>10, <1>12
     DEF CallsIn, Call, SameCaller, SameWork, SameClean, SameValues, SameStage, SameQueue, Accepting

LEMMA CallFailDoes ==
    ASSUME ShapeInv, NEW r \in Requests, Call(r), ~Accepting(r)
    PROVE  CallFails(r)
<1>1. req[r] \in Slots /\ req \in [Requests -> Slots] /\ ns \in [Namespaces -> Tables]
  BY DEF ShapeInv
<1> DEFINE s == [req[r] EXCEPT !.caller = "error"]
<1>2. req' = [req EXCEPT ![r] = s]
  BY <1>1 DEF Call
<1>3. s \in Slots
  BY <1>1 DEF Slots, Working
<1>4. /\ s.caller = "error" /\ s.srv = req[r].srv /\ s.resource = req[r].resource
      /\ s.cleaned = req[r].cleaned /\ s.cleanups = req[r].cleanups
      /\ s.cancelSub = req[r].cancelSub /\ s.entry = req[r].entry
      /\ s.listening = req[r].listening /\ s.emitted = req[r].emitted
      /\ s.missed = req[r].missed
  BY <1>1 DEF Slots
<1> HIDE DEF s
<1>5. Only(r) /\ req'[r] = s
  BY <1>1, <1>2, <1>3, ReqEffect
<1>6. QED
  BY <1>1, <1>4, <1>5 DEF CallFails, Call, SameCaller, SameWork, SameClean, SameValues

LEMMA GetReplyDoes ==
    ASSUME ShapeInv, NEW r \in Requests, NEW o \in {"ok", "error"}, GetReply(r, o)
    PROVE  Hears(r, o)
<1>1. req[r] \in Slots /\ req \in [Requests -> Slots] /\ ns \in [Namespaces -> Tables]
  BY DEF ShapeInv
<1>2. (req[r].listening /\ o = "ok") \in BOOLEAN
  OBVIOUS
<1>3. o = "ok" => (req[r].listening /\ o = "ok") = req[r].listening
  BY <1>1 DEF Slots
<1> DEFINE s == [req[r] EXCEPT !.caller = o, !.listening = (req[r].listening /\ o = "ok")]
<1>4. req' = [req EXCEPT ![r] = s]
  BY <1>1, <1>2, <1>3 DEF GetReply
<1>5. s \in Slots
  BY <1>1, <1>2, <1>3 DEF Slots, Working
<1>6. /\ s.caller = o /\ s.srv = req[r].srv /\ s.resource = req[r].resource
      /\ s.cleaned = req[r].cleaned /\ s.cleanups = req[r].cleanups
      /\ s.cancelSub = req[r].cancelSub /\ s.entry = req[r].entry
      /\ s.listening = (req[r].listening /\ o = "ok") /\ s.emitted = req[r].emitted
      /\ s.missed = req[r].missed
  BY <1>1, <1>2, <1>3 DEF Slots
<1> HIDE DEF s
<1>7. Only(r) /\ req'[r] = s
  BY <1>1, <1>4, <1>5, ReqEffect
<1>8. QED
  BY <1>1, <1>2, <1>3, <1>6, <1>7 DEF Hears, GetReply, SameCaller, SameWork, SameClean, SameValues

LEMMA TimeOutDoes ==
    ASSUME ShapeInv, NEW r \in Requests, TimeOut(r)
    PROVE  GivesUp(r)
<1>1. req[r] \in Slots /\ req \in [Requests -> Slots] /\ ns \in [Namespaces -> Tables]
  BY DEF ShapeInv
<1> DEFINE s == [req[r] EXCEPT !.caller = "timeout", !.listening = FALSE]
<1>2. req' = [req EXCEPT ![r] = s]
  BY <1>1 DEF TimeOut
<1>3. s \in Slots
  BY <1>1 DEF Slots, Working
<1>4. /\ s.caller = "timeout" /\ s.srv = req[r].srv /\ s.resource = req[r].resource
      /\ s.cleaned = req[r].cleaned /\ s.cleanups = req[r].cleanups
      /\ s.cancelSub = req[r].cancelSub /\ s.entry = req[r].entry /\ s.listening = FALSE
      /\ s.emitted = req[r].emitted /\ s.missed = req[r].missed
  BY <1>1 DEF Slots
<1> HIDE DEF s
<1>5. Only(r) /\ req'[r] = s
  BY <1>1, <1>2, <1>3, ReqEffect
<1>6. QED
  BY <1>1, <1>4, <1>5 DEF GivesUp, TimeOut, SameCaller, SameWork, SameClean, SameValues

LEMMA LeaveDoes ==
    ASSUME ShapeInv, NEW r \in Requests, Leave(r)
    PROVE  Leaves(r)
<1>1. req[r] \in Slots /\ req \in [Requests -> Slots] /\ ns \in [Namespaces -> Tables]
  BY DEF ShapeInv
<1> DEFINE s == [req[r] EXCEPT !.caller = "left", !.listening = FALSE]
<1>2. req' = [req EXCEPT ![r] = s]
  BY <1>1 DEF Leave
<1>3. s \in Slots
  BY <1>1 DEF Slots, Working
<1>4. /\ s.caller = "left" /\ s.srv = req[r].srv /\ s.resource = req[r].resource
      /\ s.cleaned = req[r].cleaned /\ s.cleanups = req[r].cleanups
      /\ s.cancelSub = req[r].cancelSub /\ s.entry = req[r].entry /\ s.listening = FALSE
      /\ s.emitted = req[r].emitted /\ s.missed = req[r].missed
  BY <1>1 DEF Slots
<1> HIDE DEF s
<1>5. Only(r) /\ req'[r] = s
  BY <1>1, <1>2, <1>3, ReqEffect
<1>6. QED
  BY <1>1, <1>4, <1>5 DEF Leaves, Leave, SameCaller, SameWork, SameClean, SameValues

(* The dispatch. *)
LEMMA TakeTaskDoes ==
    ASSUME ShapeInv, NEW n \in Namespaces, NEW r \in Requests, r = Head(ns[n].queue), Take(n), AsTask(r)
    PROVE  Takes(n, r)
<1>1. req[r] \in Slots /\ req \in [Requests -> Slots] /\ ns \in [Namespaces -> Tables]
  BY DEF ShapeInv
<1>2. ns[n] \in Tables /\ ns[n].queue \in Seq(Requests) /\ ns[n].started \in Seq(Requests) /\ ns[n].queue /= <<>>
  BY <1>1 DEF Tables, Take
<1>3. Tail(ns[n].queue) \in Seq(Requests) /\ Append(ns[n].started, r) \in Seq(Requests)
  BY <1>2
<1> DEFINE s == [req[r] EXCEPT !.srv = "task"]
           t == [ns[n] EXCEPT !.queue = Tail(ns[n].queue)]
<1>4. req' = [req EXCEPT ![r] = s] /\ ns' = [ns EXCEPT ![n] = t]
  BY <1>1, <1>2, <1>3 DEF Take
<1>5. s \in Slots
  BY <1>1, <1>2, <1>3 DEF Slots, Working
<1>6. /\ s.caller = req[r].caller /\ s.srv = "task" /\ s.resource = req[r].resource
      /\ s.cleaned = req[r].cleaned /\ s.cleanups = req[r].cleanups
      /\ s.cancelSub = req[r].cancelSub /\ s.entry = req[r].entry
      /\ s.listening = req[r].listening /\ s.emitted = req[r].emitted
      /\ s.missed = req[r].missed
  BY <1>1, <1>2, <1>3 DEF Slots
<1>7. t \in Tables
  BY <1>1, <1>2, <1>3 DEF Tables
<1>8. /\ t.stage = ns[n].stage /\ t.queue = Tail(ns[n].queue) /\ t.busy = ns[n].busy
      /\ t.ids = ns[n].ids
  BY <1>1, <1>2, <1>3 DEF Tables
<1> HIDE DEF s, t
<1>9. Only(r) /\ req'[r] = s
  BY <1>1, <1>4, <1>5, ReqEffect
<1>10. OnlyNs(n) /\ ns'[n] = t
  BY <1>1, <1>2, <1>3, <1>4, <1>7, NsEffect
<1>11. QED
  BY <1>1, <1>2, <1>3, <1>6, <1>9, <1>8, <1>10
     DEF Takes, Take, SameCaller, SameWork, SameClean, SameValues, SameStage, SameQueue

LEMMA TakeDoes ==
    ASSUME ShapeInv, NEW n \in Namespaces, NEW r \in Requests, r = Head(ns[n].queue), Take(n), ~AsTask(r)
    PROVE  Takes(n, r)
<1>1. req[r] \in Slots /\ req \in [Requests -> Slots] /\ ns \in [Namespaces -> Tables]
  BY DEF ShapeInv
<1>2. ns[n] \in Tables /\ ns[n].queue \in Seq(Requests) /\ ns[n].started \in Seq(Requests) /\ ns[n].queue /= <<>>
  BY <1>1 DEF Tables, Take
<1>3. Tail(ns[n].queue) \in Seq(Requests) /\ Append(ns[n].started, r) \in Seq(Requests)
  BY <1>2
<1> DEFINE s == [req[r] EXCEPT !.srv = "invoke"]
           t == [ns[n] EXCEPT !.queue = Tail(ns[n].queue), !.busy = r, !.started = Append(ns[n].started, r)]
<1>4. req' = [req EXCEPT ![r] = s] /\ ns' = [ns EXCEPT ![n] = t]
  BY <1>1, <1>2, <1>3 DEF Take
<1>5. s \in Slots
  BY <1>1, <1>2, <1>3 DEF Slots, Working
<1>6. /\ s.caller = req[r].caller /\ s.srv = "invoke" /\ s.resource = req[r].resource
      /\ s.cleaned = req[r].cleaned /\ s.cleanups = req[r].cleanups
      /\ s.cancelSub = req[r].cancelSub /\ s.entry = req[r].entry
      /\ s.listening = req[r].listening /\ s.emitted = req[r].emitted
      /\ s.missed = req[r].missed
  BY <1>1, <1>2, <1>3 DEF Slots
<1>7. t \in Tables
  BY <1>1, <1>2, <1>3 DEF Tables
<1>8. /\ t.stage = ns[n].stage /\ t.queue = Tail(ns[n].queue) /\ t.busy = r /\ t.ids = ns[n].ids
  BY <1>1, <1>2, <1>3 DEF Tables
<1> HIDE DEF s, t
<1>9. Only(r) /\ req'[r] = s
  BY <1>1, <1>4, <1>5, ReqEffect
<1>10. OnlyNs(n) /\ ns'[n] = t
  BY <1>1, <1>2, <1>3, <1>4, <1>7, NsEffect
<1>11. QED
  BY <1>1, <1>2, <1>3, <1>6, <1>9, <1>8, <1>10
     DEF Takes, Take, SameCaller, SameWork, SameClean, SameValues, SameStage, SameQueue

LEMMA StartTaskDoes ==
    ASSUME ShapeInv, NEW r \in Requests, StartTask(r)
    PROVE  Begins(r)
<1>1. req[r] \in Slots /\ req \in [Requests -> Slots] /\ ns \in [Namespaces -> Tables]
  BY DEF ShapeInv
<1>2. to[r] \in Namespaces /\ ns[to[r]] \in Tables
  BY <1>1 DEF ShapeInv
<1>3. Append(ns[to[r]].started, r) \in Seq(Requests)
  BY <1>2 DEF Tables
<1> DEFINE s == [req[r] EXCEPT !.srv = "invoke"]
           t == [ns[to[r]] EXCEPT !.started = Append(ns[to[r]].started, r)]
<1>4. req' = [req EXCEPT ![r] = s] /\ ns' = [ns EXCEPT ![to[r]] = t]
  BY <1>1, <1>2, <1>3 DEF StartTask
<1>5. s \in Slots
  BY <1>1, <1>2, <1>3 DEF Slots, Working
<1>6. /\ s.caller = req[r].caller /\ s.srv = "invoke" /\ s.resource = req[r].resource
      /\ s.cleaned = req[r].cleaned /\ s.cleanups = req[r].cleanups
      /\ s.cancelSub = req[r].cancelSub /\ s.entry = req[r].entry
      /\ s.listening = req[r].listening /\ s.emitted = req[r].emitted
      /\ s.missed = req[r].missed
  BY <1>1, <1>2, <1>3 DEF Slots
<1>7. t \in Tables
  BY <1>1, <1>2, <1>3 DEF Tables
<1>8. /\ t.stage = ns[to[r]].stage /\ t.queue = ns[to[r]].queue /\ t.busy = ns[to[r]].busy
      /\ t.ids = ns[to[r]].ids
  BY <1>1, <1>2, <1>3 DEF Tables
<1> HIDE DEF s, t
<1>9. Only(r) /\ req'[r] = s
  BY <1>1, <1>4, <1>5, ReqEffect
<1>10. OnlyNs(to[r]) /\ ns'[to[r]] = t
  BY <1>1, <1>2, <1>3, <1>4, <1>7, NsEffect
<1>11. QED
  BY <1>1, <1>2, <1>3, <1>6, <1>9, <1>8, <1>10
     DEF Begins, StartTask, SameCaller, SameWork, SameClean, SameValues, SameStage, SameQueue

LEMMA ReturnedDoes ==
    ASSUME ShapeInv, NEW r \in Requests, Returned(r)
    PROVE  Returns(r)
<1>1. req[r] \in Slots /\ req \in [Requests -> Slots] /\ ns \in [Namespaces -> Tables]
  BY DEF ShapeInv
<1>2. to[r] \in Namespaces /\ ns[to[r]] \in Tables
  BY <1>1 DEF ShapeInv
<1>3. Freed(to[r], r) \in Requests \cup {Idle}
  BY <1>2 DEF Freed, Tables
<1> DEFINE s == [req[r] EXCEPT !.srv = "done"]
           t == [ns[to[r]] EXCEPT !.busy = Freed(to[r], r)]
<1>4. req' = [req EXCEPT ![r] = s] /\ ns' = [ns EXCEPT ![to[r]] = t]
  BY <1>1, <1>2, <1>3 DEF Returned
<1>5. s \in Slots
  BY <1>1, <1>2, <1>3 DEF Slots, Working
<1>6. /\ s.caller = req[r].caller /\ s.srv = "done" /\ s.resource = req[r].resource
      /\ s.cleaned = req[r].cleaned /\ s.cleanups = req[r].cleanups
      /\ s.cancelSub = req[r].cancelSub /\ s.entry = req[r].entry
      /\ s.listening = req[r].listening /\ s.emitted = req[r].emitted
      /\ s.missed = req[r].missed
  BY <1>1, <1>2, <1>3 DEF Slots
<1>7. t \in Tables
  BY <1>1, <1>2, <1>3 DEF Tables
<1>8. /\ t.stage = ns[to[r]].stage /\ t.queue = ns[to[r]].queue /\ t.busy = Freed(to[r], r)
      /\ t.ids = ns[to[r]].ids
  BY <1>1, <1>2, <1>3 DEF Tables
<1> HIDE DEF s, t
<1>9. Only(r) /\ req'[r] = s
  BY <1>1, <1>4, <1>5, ReqEffect
<1>10. OnlyNs(to[r]) /\ ns'[to[r]] = t
  BY <1>1, <1>2, <1>3, <1>4, <1>7, NsEffect
<1>11. QED
  BY <1>1, <1>2, <1>3, <1>6, <1>9, <1>8, <1>10
     DEF Returns, Returned, SameCaller, SameWork, SameClean, SameValues, SameStage, SameQueue, LetsGo

LEMMA OpenDoes ==
    ASSUME ShapeInv, NEW r \in Requests, Open(r)
    PROVE  Opens(r)
<1>1. req[r] \in Slots /\ req \in [Requests -> Slots] /\ ns \in [Namespaces -> Tables]
  BY DEF ShapeInv
<1> DEFINE s == [req[r] EXCEPT !.srv = (IF Handled(r) = "stream" THEN "streaming" ELSE "subscribe"),
                               !.resource = "open"]
<1>2. req' = [req EXCEPT ![r] = s]
  BY <1>1 DEF Open
<1>3. s \in Slots
  BY <1>1 DEF Slots, Working
<1>4. /\ s.caller = req[r].caller
      /\ s.srv = (IF Handled(r) = "stream" THEN "streaming" ELSE "subscribe")
      /\ s.resource = "open" /\ s.cleaned = req[r].cleaned /\ s.cleanups = req[r].cleanups
      /\ s.cancelSub = req[r].cancelSub /\ s.entry = req[r].entry
      /\ s.listening = req[r].listening /\ s.emitted = req[r].emitted
      /\ s.missed = req[r].missed
  BY <1>1 DEF Slots
<1> HIDE DEF s
<1>5. Only(r) /\ req'[r] = s
  BY <1>1, <1>2, <1>3, ReqEffect
<1>6. QED
  BY <1>1, <1>4, <1>5 DEF Opens, Open, SameCaller, SameWork, SameClean, SameValues

LEMMA StreamEndsDoes ==
    ASSUME ShapeInv, NEW r \in Requests, StreamEnds(r)
    PROVE  StreamDone(r)
<1>1. req[r] \in Slots /\ req \in [Requests -> Slots] /\ ns \in [Namespaces -> Tables]
  BY DEF ShapeInv
<1>2. to[r] \in Namespaces /\ ns[to[r]] \in Tables
  BY <1>1 DEF ShapeInv
<1>3. Freed(to[r], r) \in Requests \cup {Idle}
  BY <1>2 DEF Freed, Tables
<1> DEFINE s == [req[r] EXCEPT !.srv = "done", !.resource = "closed",
                               !.caller = (IF req[r].caller = "waiting" THEN "ok" ELSE req[r].caller)]
           t == [ns[to[r]] EXCEPT !.busy = Freed(to[r], r)]
<1>4. req' = [req EXCEPT ![r] = s] /\ ns' = [ns EXCEPT ![to[r]] = t]
  BY <1>1, <1>2, <1>3 DEF StreamEnds
<1>5. s \in Slots
  BY <1>1, <1>2, <1>3 DEF Slots, Working
<1>6. /\ s.caller = (IF req[r].caller = "waiting" THEN "ok" ELSE req[r].caller)
      /\ s.srv = "done" /\ s.resource = "closed" /\ s.cleaned = req[r].cleaned
      /\ s.cleanups = req[r].cleanups /\ s.cancelSub = req[r].cancelSub
      /\ s.entry = req[r].entry /\ s.listening = req[r].listening /\ s.emitted = req[r].emitted
      /\ s.missed = req[r].missed
  BY <1>1, <1>2, <1>3 DEF Slots
<1>7. t \in Tables
  BY <1>1, <1>2, <1>3 DEF Tables
<1>8. /\ t.stage = ns[to[r]].stage /\ t.queue = ns[to[r]].queue /\ t.busy = Freed(to[r], r)
      /\ t.ids = ns[to[r]].ids
  BY <1>1, <1>2, <1>3 DEF Tables
<1> HIDE DEF s, t
<1>9. Only(r) /\ req'[r] = s
  BY <1>1, <1>4, <1>5, ReqEffect
<1>10. OnlyNs(to[r]) /\ ns'[to[r]] = t
  BY <1>1, <1>2, <1>3, <1>4, <1>7, NsEffect
<1>11. QED
  BY <1>1, <1>2, <1>3, <1>6, <1>9, <1>8, <1>10
     DEF StreamDone, StreamEnds, SameCaller, SameWork, SameClean, SameValues, SameStage, SameQueue,
         LetsGo

LEMMA TrackDoes ==
    ASSUME ShapeInv, NEW r \in Requests, Track(r) \/ ServiceTrack(r)
    PROVE  Tracks(r)
<1>1. req[r] \in Slots /\ req \in [Requests -> Slots] /\ ns \in [Namespaces -> Tables]
  BY DEF ShapeInv
<1>2. to[r] \in Namespaces /\ ns[to[r]] \in Tables
  BY <1>1 DEF ShapeInv
<1> DEFINE s == [req[r] EXCEPT !.srv = "reply", !.cancelSub = TRUE, !.entry = TRUE]
           t == [ns[to[r]] EXCEPT !.ids = (ns[to[r]].ids \cup {r})]
<1>3. req' = [req EXCEPT ![r] = s] /\ ns' = [ns EXCEPT ![to[r]] = t]
  BY <1>1, <1>2 DEF Track, ServiceTrack
<1>4. s \in Slots
  BY <1>1, <1>2 DEF Slots, Working
<1>5. /\ s.caller = req[r].caller /\ s.srv = "reply" /\ s.resource = req[r].resource
      /\ s.cleaned = req[r].cleaned /\ s.cleanups = req[r].cleanups /\ s.cancelSub = TRUE
      /\ s.entry = TRUE /\ s.listening = req[r].listening /\ s.emitted = req[r].emitted
      /\ s.missed = req[r].missed
  BY <1>1, <1>2 DEF Slots
<1>6. t \in Tables
  BY <1>1, <1>2 DEF Tables
<1>7. /\ t.stage = ns[to[r]].stage /\ t.queue = ns[to[r]].queue /\ t.busy = ns[to[r]].busy
      /\ t.ids = (ns[to[r]].ids \cup {r})
  BY <1>1, <1>2 DEF Tables
<1> HIDE DEF s, t
<1>8. Only(r) /\ req'[r] = s
  BY <1>1, <1>3, <1>4, ReqEffect
<1>9. OnlyNs(to[r]) /\ ns'[to[r]] = t
  BY <1>1, <1>2, <1>3, <1>6, NsEffect
<1>10. QED
  BY <1>1, <1>2, <1>5, <1>8, <1>7, <1>9
     DEF Tracks, Track, ServiceTrack, SameCaller, SameWork, SameClean, SameValues, SameStage, SameQueue

LEMMA ReplyDoes ==
    ASSUME ShapeInv, NEW r \in Requests, Reply(r)
    PROVE  Replies(r)
<1>1. req[r] \in Slots /\ req \in [Requests -> Slots] /\ ns \in [Namespaces -> Tables]
  BY DEF ShapeInv
<1>2. to[r] \in Namespaces /\ ns[to[r]] \in Tables
  BY <1>1 DEF ShapeInv
<1>3. Freed(to[r], r) \in Requests \cup {Idle}
  BY <1>2 DEF Freed, Tables
<1> DEFINE s == [req[r] EXCEPT !.srv = "done"]
           t == [ns[to[r]] EXCEPT !.busy = Freed(to[r], r)]
<1>4. req' = [req EXCEPT ![r] = s] /\ ns' = [ns EXCEPT ![to[r]] = t]
  BY <1>1, <1>2, <1>3 DEF Reply
<1>5. s \in Slots
  BY <1>1, <1>2, <1>3 DEF Slots, Working
<1>6. /\ s.caller = req[r].caller /\ s.srv = "done" /\ s.resource = req[r].resource
      /\ s.cleaned = req[r].cleaned /\ s.cleanups = req[r].cleanups
      /\ s.cancelSub = req[r].cancelSub /\ s.entry = req[r].entry
      /\ s.listening = req[r].listening /\ s.emitted = req[r].emitted
      /\ s.missed = req[r].missed
  BY <1>1, <1>2, <1>3 DEF Slots
<1>7. t \in Tables
  BY <1>1, <1>2, <1>3 DEF Tables
<1>8. /\ t.stage = ns[to[r]].stage /\ t.queue = ns[to[r]].queue /\ t.busy = Freed(to[r], r)
      /\ t.ids = ns[to[r]].ids
  BY <1>1, <1>2, <1>3 DEF Tables
<1> HIDE DEF s, t
<1>9. Only(r) /\ req'[r] = s
  BY <1>1, <1>4, <1>5, ReqEffect
<1>10. OnlyNs(to[r]) /\ ns'[to[r]] = t
  BY <1>1, <1>2, <1>3, <1>4, <1>7, NsEffect
<1>11. QED
  BY <1>1, <1>2, <1>3, <1>6, <1>9, <1>8, <1>10, RepliedSends
     DEF Replies, Reply, SameCaller, SameWork, SameClean, SameValues, SameStage, SameQueue, LetsGo

(* Callbacks and cleanups. *)
LEMMA EmitDoes ==
    ASSUME ShapeInv, NEW r \in Requests, Emit(r)
    PROVE  Emits(r)
<1>1. req[r] \in Slots /\ req \in [Requests -> Slots] /\ ns \in [Namespaces -> Tables]
  BY DEF ShapeInv
<1> DEFINE x == IF req[r].listening /\ call[r].handler = "callback" THEN req[r].missed ELSE req[r].missed + 1
<1>2. req[r].emitted + 1 \in 0..MaxValues /\ req[r].missed \in Nat
  BY <1>1, EndpointAssumption DEF Slots, Emit
<1>3. x \in {req[r].missed, req[r].missed + 1}
  BY Zenon
<1>4. x \in Nat
  BY <1>2, <1>3
<1>5. x = req[r].missed \/ ~req[r].listening \/ call[r].handler /= "callback"
  BY Zenon
<1> DEFINE s == [req[r] EXCEPT !.emitted = req[r].emitted + 1, !.missed = x]
<1>6. req' = [req EXCEPT ![r] = s]
  BY <1>1, <1>2, <1>3, <1>4, <1>5 DEF Emit
<1>7. s \in Slots
  BY <1>1, <1>2, <1>3, <1>4, <1>5 DEF Slots, Working
<1>8. /\ s.caller = req[r].caller /\ s.srv = req[r].srv /\ s.resource = req[r].resource
      /\ s.cleaned = req[r].cleaned /\ s.cleanups = req[r].cleanups
      /\ s.cancelSub = req[r].cancelSub /\ s.entry = req[r].entry
      /\ s.listening = req[r].listening /\ s.emitted = req[r].emitted + 1 /\ s.missed = x
  BY <1>1, <1>2, <1>3, <1>4, <1>5 DEF Slots
<1> HIDE DEF s
<1>9. Only(r) /\ req'[r] = s
  BY <1>1, <1>6, <1>7, ReqEffect
<1>10. QED
  BY <1>1, <1>2, <1>3, <1>4, <1>5, <1>8, <1>9 DEF Emits, Emit, SameCaller, SameWork, SameClean, SameValues

LEMMA OnCancelDoes ==
    ASSUME ShapeInv, NEW r \in Requests, OnCancel(r), req[r].cancelSub
    PROVE  Cancelled(r)
<1>1. req[r] \in Slots /\ req \in [Requests -> Slots] /\ ns \in [Namespaces -> Tables]
  BY DEF ShapeInv
<1> DEFINE x == IF req[r].cleaned THEN req[r].cleanups ELSE req[r].cleanups + 1
           y == IF req[r].cleaned THEN req[r].resource ELSE "cancelled"
<1>2. (req[r].cleaned => x = req[r].cleanups) /\ (~req[r].cleaned => x = req[r].cleanups + 1)
  BY Zenon
<1>3. y \in {req[r].resource, "cancelled"}
  BY Zenon
<1>4. x \in Nat /\ y \in {"none", "open", "cancelled", "closed", "cut"}
  BY <1>1, <1>2, <1>3 DEF Slots
<1> DEFINE s == [req[r] EXCEPT !.entry = FALSE, !.cleaned = TRUE, !.resource = y, !.cleanups = x]
<1>5. req' = [req EXCEPT ![r] = s]
  BY <1>1, <1>2, <1>3, <1>4 DEF OnCancel
<1>6. s \in Slots
  BY <1>1, <1>2, <1>3, <1>4 DEF Slots, Working
<1>7. /\ s.caller = req[r].caller /\ s.srv = req[r].srv /\ s.resource = y /\ s.cleaned = TRUE
      /\ s.cleanups = x /\ s.cancelSub = req[r].cancelSub /\ s.entry = FALSE
      /\ s.listening = req[r].listening /\ s.emitted = req[r].emitted
      /\ s.missed = req[r].missed
  BY <1>1, <1>2, <1>3, <1>4 DEF Slots
<1> HIDE DEF s
<1>8. Only(r) /\ req'[r] = s
  BY <1>1, <1>5, <1>6, ReqEffect
<1>9. QED
  BY <1>1, <1>2, <1>3, <1>4, <1>7, <1>8
     DEF Cancelled, OnCancel, SameCaller, SameWork, SameClean, SameValues, CleansUp

LEMMA CleanupDoes ==
    ASSUME ShapeInv, NEW r \in Requests, NEW entry \in BOOLEAN, req' = [req EXCEPT ![r] = Cleanup(r, entry)]
    PROVE  CleansOut(r, entry)
<1>1. req[r] \in Slots /\ req \in [Requests -> Slots] /\ ns \in [Namespaces -> Tables]
  BY DEF ShapeInv
<1> DEFINE x == IF req[r].cleaned THEN req[r].cleanups ELSE req[r].cleanups + 1
           y == IF req[r].resource = "cancelled" THEN "cut" ELSE "closed"
<1>2. (req[r].cleaned => x = req[r].cleanups) /\ (~req[r].cleaned => x = req[r].cleanups + 1)
  BY Zenon
<1>3. y \in {"cut", "closed"}
  BY Zenon
<1>4. x \in Nat /\ y \in {"none", "open", "cancelled", "closed", "cut"}
  BY <1>1, <1>2, <1>3 DEF Slots
<1> DEFINE s == [req[r] EXCEPT !.cancelSub = FALSE, !.entry = entry, !.cleaned = TRUE, !.resource = y,
                               !.cleanups = x]
<1>5. req' = [req EXCEPT ![r] = s]
  BY <1>1, <1>2, <1>3, <1>4 DEF Cleanup
<1> HIDE DEF x, y
<1>6. s \in Slots
  BY <1>1, <1>4 DEF Slots, Working
<1>7. /\ s.caller = req[r].caller /\ s.srv = req[r].srv /\ s.resource = y /\ s.cleaned = TRUE
      /\ s.cleanups = x /\ s.cancelSub = FALSE /\ s.entry = entry
      /\ s.listening = req[r].listening /\ s.emitted = req[r].emitted
      /\ s.missed = req[r].missed
  BY <1>1, <1>2, <1>3, <1>4 DEF Slots
<1> HIDE DEF s
<1>8. Only(r) /\ req'[r] = s
  BY <1>1, <1>5, <1>6, ReqEffect
<1>9. QED
  BY <1>1, <1>2, <1>3, <1>4, <1>7, <1>8
     DEF CleansOut, Cleanup, SameCaller, SameWork, SameClean, SameValues, CleansUp

LEMMA CancelDoneDoes ==
    ASSUME ShapeInv, NEW r \in Requests, CancelDone(r)
    PROVE  CancelEnds(r)
<1>1. req[r] \in Slots /\ req \in [Requests -> Slots] /\ ns \in [Namespaces -> Tables]
  BY DEF ShapeInv
<1> DEFINE s == [req[r] EXCEPT !.resource = "closed", !.cancelSub = FALSE]
<1>2. req' = [req EXCEPT ![r] = s]
  BY <1>1 DEF CancelDone
<1>3. s \in Slots
  BY <1>1 DEF Slots, Working
<1>4. /\ s.caller = req[r].caller /\ s.srv = req[r].srv /\ s.resource = "closed"
      /\ s.cleaned = req[r].cleaned /\ s.cleanups = req[r].cleanups /\ s.cancelSub = FALSE
      /\ s.entry = req[r].entry /\ s.listening = req[r].listening /\ s.emitted = req[r].emitted
      /\ s.missed = req[r].missed
  BY <1>1 DEF Slots
<1> HIDE DEF s
<1>5. Only(r) /\ req'[r] = s
  BY <1>1, <1>2, <1>3, ReqEffect
<1>6. QED
  BY <1>1, <1>4, <1>5 DEF CancelEnds, CancelDone, SameCaller, SameWork, SameClean, SameValues

(* Handlers that are done, and the removal of the handlers. *)
LEMMA AnswerDoes ==
    ASSUME ShapeInv, NEW r \in Requests, Answer(r) \/ ServiceAnswer(r)
    PROVE  Answers(r)
<1>1. Returns(r)
  BY ReturnedDoes DEF Answer, ServiceAnswer
<1>2. replies' = Replied(r, "error") \/ (replies' = Result(r) /\ (host = "client" => Handled(r) = "normal"))
  BY DEF Answer, ServiceAnswer
<1>3. CASE replies' = Replied(r, "error")
  BY <1>1, <1>3, RepliedSends DEF Answers
<1>4. CASE replies' = Result(r) /\ (host = "client" => Handled(r) = "normal")
  <2>1. replies' = replies \/ replies' = Replied(r, "ok")
    BY <1>4, Zenon DEF Result
  <2>2. Sends(r, "ok")
    BY <2>1, RepliedSends DEF Sends
  <2>3. host = "client" => Route(call[r]) # "callback"
    BY <1>4 DEF Handled, ClientKind
  <2>4. QED  BY <1>1, <2>2, <2>3 DEF Answers
<1>5. QED  BY <1>2, <1>3, <1>4

LEMMA StageEffect ==
    ASSUME ShapeInv, NEW n \in Namespaces, NEW stage \in {"up", "removing", "stopping", "removed"},
           ns' = [ns EXCEPT ![n].stage = stage]
    PROVE  Stage(n, stage)
<1> DEFINE t == [ns[n] EXCEPT !.stage = stage]
<1>1. ns \in [Namespaces -> Tables] /\ ns[n] \in Tables
  BY DEF ShapeInv
<1>2. ns' = [ns EXCEPT ![n] = t]
  OBVIOUS
<1>3. t \in Tables /\ t.stage = stage /\ t.queue = ns[n].queue /\ t.busy = ns[n].busy /\ t.ids = ns[n].ids
  BY <1>1 DEF Tables
<1> HIDE DEF t
<1>4. OnlyNs(n) /\ ns'[n] = t
  BY <1>1, <1>2, <1>3, NsEffect
<1>5. QED  BY <1>3, <1>4 DEF Stage, SameQueue

LEMMA RemoveTrackedDoes ==
    ASSUME ShapeInv, NEW n \in Namespaces, RemoveTracked(n)
    PROVE  RemovesAll(n) \/ \E r \in Requests : Removes(n, r)
<1>1. ns[n].ids \subseteq Requests
  BY DEF ShapeInv, Tables
<1>2. CASE \E r \in Tracked(n) : req' = [req EXCEPT ![r] = Cleanup(r, FALSE)] /\ UNCHANGED ns
  <2>1. PICK r \in Tracked(n) : req' = [req EXCEPT ![r] = Cleanup(r, FALSE)] /\ UNCHANGED ns
    BY <1>2
  <2>2. r \in Requests /\ r \in ns[n].ids
    BY <1>1 DEF Tracked
  <2>3. CleansOut(r, FALSE)
    BY <2>1, <2>2, CleanupDoes
  <2>4. QED  BY <2>1, <2>2, <2>3 DEF RemoveTracked, Removes
<1>3. CASE Tracked(n) = {} /\ ns' = [ns EXCEPT ![n].stage = "removed"] /\ UNCHANGED req
  <2>1. Stage(n, "removed")
    BY <1>3, StageEffect
  <2>2. \A r \in ns[n].ids : ~req[r].entry
    BY <1>3 DEF Tracked
  <2>3. QED  BY <1>3, <2>1, <2>2 DEF RemoveTracked, RemovesAll
<1>4. QED  BY <1>2, <1>3 DEF RemoveTracked

LEMMA StopDoes ==
    ASSUME ShapeInv, NEW n \in Namespaces, Stop(n)
    PROVE  Stops(n)
<1>1. Stage(n, "stopping")
  BY StageEffect DEF Stop
<1>2. QED  BY <1>1 DEF Stop, Stops, Tracked

LEMMA SweepOneDoes ==
    ASSUME ShapeInv, NEW r \in Requests, SweepOne(r)
    PROVE  SweepsOne(r)
<1>1. req[r].entry \in BOOLEAN /\ req' = [req EXCEPT ![r] = Cleanup(r, req[r].entry)]
  BY DEF ShapeInv, Slots, SweepOne
<1>2. CleansOut(r, req[r].entry)
  BY <1>1, CleanupDoes
<1>3. QED  BY <1>2 DEF SweepOne, SweepsOne

LEMMA EndedEffect ==
    ASSUME ShapeInv, NEW n \in Namespaces, NEW stage \in {"up", "removing", "stopping", "removed"}
    PROVE  /\ Ended(n, stage) \in Tables /\ Ended(n, stage).stage = stage
           /\ Ended(n, stage).queue = <<>> /\ Ended(n, stage).busy = Idle
           /\ Ended(n, stage).ids = ns[n].ids
<1>1. ns[n] \in Tables /\ <<>> \in Seq(Requests)
  BY DEF ShapeInv
<1>2. QED  BY <1>1 DEF Ended, Tables

LEMMA CutSlotEffect ==
    ASSUME ShapeInv, NEW n \in Namespaces, NEW r \in Requests, NEW s,
           s = CutOff(n)[r]
    PROVE  /\ s \in Slots /\ s.srv = (IF Cut(n, r) THEN "cut" ELSE req[r].srv)
           /\ s.resource = req[r].resource /\ s.caller = req[r].caller /\ s.listening = req[r].listening
           /\ s.missed = req[r].missed /\ s.cleaned = req[r].cleaned /\ s.cleanups = req[r].cleanups
           /\ s.entry = req[r].entry /\ s.cancelSub = req[r].cancelSub
<1>1. req[r] \in Slots
  BY DEF ShapeInv
<1>2. CASE Cut(n, r)
  <2>1. s = [req[r] EXCEPT !.srv = "cut"]
    BY <1>2, Zenon DEF CutOff, Cut
  <2>2. QED  BY <1>1, <1>2, <2>1 DEF Slots
<1>3. CASE ~Cut(n, r)
  <2>1. s = req[r]
    BY <1>3, Zenon DEF CutOff, Cut
  <2>2. QED  BY <1>1, <1>3, <2>1
<1>4. QED  BY <1>2, <1>3

LEMMA RemoveHandlersDoes ==
    ASSUME ShapeInv, NEW n \in Namespaces, RemoveHandlers(n)
    PROVE  RemovesTask(n)
<1>1. req' = CutOff(n) /\ ns' = [ns EXCEPT ![n] = Ended(n, "removing")] /\ ns \in [Namespaces -> Tables]
  BY DEF RemoveHandlers, ShapeInv
<1>2. req' = [r \in Requests |-> CutOff(n)[r]]
  BY <1>1 DEF CutOff
<1>3. \A r \in Requests : req'[r] = CutOff(n)[r]
  BY <1>2
<1>4. \A r \in Requests : req'[r] \in Slots /\ CutsOff(n, r) /\ SameClean(r)
  BY <1>3, CutSlotEffect DEF CutsOff, SameClean, SameCaller, SameValues
<1>5. req' \in [Requests -> Slots]
  BY <1>2, <1>4
<1>6. OnlyNs(n) /\ ns'[n] = Ended(n, "removing")
  BY <1>1, EndedEffect, NsEffect
<1>7. EndsTask(n) /\ ns'[n].stage = "removing"
  BY <1>6, EndedEffect DEF EndsTask
<1>8. QED  BY <1>4, <1>5, <1>6, <1>7 DEF RemovesTask, RemoveHandlers

LEMMA StoppedDoes ==
    ASSUME ShapeInv, QueueInv, NEW n \in Namespaces, Stopped(n)
    PROVE  StopEnds(n)
<1>1. req \in [Requests -> Slots] /\ ns \in [Namespaces -> Tables]
  BY DEF ShapeInv
<1>2. UNCHANGED <<fixed, closing, swept, replies, cancels>> /\ ns[n].stage = "stopping"
  BY DEF Stopped
<1>3. CASE /\ ns' = [ns EXCEPT ![n] = Ended(n, "removed")]
           /\ req' = [r \in Requests |-> IF to[r] = n THEN [CutOff(n)[r] EXCEPT !.entry = FALSE] ELSE req[r]]
  <2>1. OnlyNs(n) /\ ns'[n] = Ended(n, "removed")
    BY <1>1, <1>3, EndedEffect, NsEffect
  <2>2. EndsTask(n) /\ ns'[n].stage = "removed"
    BY <2>1, EndedEffect DEF EndsTask
  <2>3. ASSUME NEW r \in Requests
        PROVE  /\ req'[r] \in Slots /\ CutsOff(n, r)
               /\ (req'[r].entry => req[r].entry) /\ req'[r].cancelSub = req[r].cancelSub
    <3>1. CASE to[r] = n
      <4> DEFINE s == CutOff(n)[r]
      <4>1. req'[r] = [s EXCEPT !.entry = FALSE]
        BY <1>3, <3>1
      <4>2. /\ s \in Slots /\ s.srv = (IF Cut(n, r) THEN "cut" ELSE req[r].srv)
            /\ s.resource = req[r].resource /\ s.caller = req[r].caller /\ s.listening = req[r].listening
            /\ s.missed = req[r].missed /\ s.cleaned = req[r].cleaned /\ s.cleanups = req[r].cleanups
            /\ s.entry = req[r].entry /\ s.cancelSub = req[r].cancelSub
        BY CutSlotEffect
      <4> HIDE DEF s
      <4>3. /\ req'[r] \in Slots /\ req'[r].srv = s.srv /\ req'[r].resource = s.resource
            /\ req'[r].caller = s.caller /\ req'[r].listening = s.listening /\ req'[r].missed = s.missed
            /\ req'[r].cleaned = s.cleaned /\ req'[r].cleanups = s.cleanups
            /\ req'[r].entry = FALSE /\ req'[r].cancelSub = s.cancelSub
        BY <4>1, <4>2 DEF Slots
      <4>4. QED  BY <4>2, <4>3 DEF CutsOff, SameCaller, SameValues
    <3>2. CASE to[r] # n
      <4>1. req'[r] = req[r] /\ req[r] \in Slots
        BY <1>1, <1>3, <3>2
      <4>2. ~Cut(n, r)
        BY <3>2 DEF QueueInv, Cut
      <4>3. QED  BY <4>1, <4>2 DEF CutsOff, SameCaller, SameValues
    <3>3. QED  BY <3>1, <3>2
  <2>4. req' \in [Requests -> Slots]
    <3>1. req' = [r \in Requests |-> req'[r]]
      BY <1>3
    <3>2. QED  BY <2>3, <3>1
  <2>5. QED  BY <1>2, <2>1, <2>2, <2>3, <2>4 DEF StopEnds
<1>4. CASE /\ ns' = [ns EXCEPT ![n].stage = "removed"]
           /\ req' = [r \in Requests |-> IF to[r] = n THEN [req[r] EXCEPT !.entry = FALSE] ELSE req[r]]
  <2>1. Stage(n, "removed")
    BY <1>4, StageEffect
  <2>2. ASSUME NEW r \in Requests
        PROVE  /\ req'[r] \in Slots /\ SameWork(r) /\ SameCaller(r) /\ SameValues(r)
               /\ req'[r].cleaned = req[r].cleaned /\ req'[r].cleanups = req[r].cleanups
               /\ (req'[r].entry => req[r].entry) /\ req'[r].cancelSub = req[r].cancelSub
    <3>1. req[r] \in Slots
      BY <1>1
    <3>2. req'[r] = [req[r] EXCEPT !.entry = FALSE] \/ req'[r] = req[r]
      BY <1>4
    <3>3. CASE req'[r] = req[r]
      BY <3>1, <3>3 DEF SameWork, SameCaller, SameValues
    <3>4. CASE req'[r] = [req[r] EXCEPT !.entry = FALSE]
      BY <3>1, <3>4 DEF Slots, SameWork, SameCaller, SameValues
    <3>5. QED  BY <3>2, <3>3, <3>4
  <2>3. req' \in [Requests -> Slots]
    <3>1. req' = [r \in Requests |-> req'[r]]
      BY <1>4
    <3>2. QED  BY <2>2, <3>1
  <2>4. QED  BY <1>2, <2>1, <2>2, <2>3 DEF StopEnds
<1>5. QED  BY <1>3, <1>4 DEF Stopped

LEMMA DisconnectedDoes ==
    ASSUME ShapeInv, Disconnected
    PROVE  DisconnectEnds
<1>1. /\ req' = [r \in Requests |-> [CutOff(to[r])[r] EXCEPT !.entry = FALSE, !.cancelSub = FALSE]]
      /\ ns' = [n \in Namespaces |-> Ended(n, ns[n].stage)]
  BY DEF Disconnected
<1>2. ASSUME NEW n \in Namespaces
      PROVE  ns'[n] \in Tables /\ EndsTask(n) /\ ns'[n].stage = ns[n].stage
  <2>1. ns[n].stage \in {"up", "removing", "stopping", "removed"} /\ ns'[n] = Ended(n, ns[n].stage)
    BY <1>1 DEF ShapeInv, Tables
  <2>2. QED  BY <2>1, EndedEffect DEF EndsTask
<1>3. ASSUME NEW r \in Requests
      PROVE  req'[r] \in Slots /\ CutsOff(to[r], r) /\ ~req'[r].entry /\ ~req'[r].cancelSub
  <2> DEFINE s == CutOff(to[r])[r]
  <2>1. req'[r] = [s EXCEPT !.entry = FALSE, !.cancelSub = FALSE] /\ to[r] \in Namespaces
    BY <1>1 DEF ShapeInv
  <2>2. /\ s \in Slots /\ s.srv = (IF Cut(to[r], r) THEN "cut" ELSE req[r].srv)
        /\ s.resource = req[r].resource /\ s.caller = req[r].caller /\ s.listening = req[r].listening
        /\ s.missed = req[r].missed /\ s.cleaned = req[r].cleaned /\ s.cleanups = req[r].cleanups
    BY <2>1, CutSlotEffect
  <2> HIDE DEF s
  <2>3. /\ req'[r] \in Slots /\ req'[r].srv = s.srv /\ req'[r].resource = s.resource
        /\ req'[r].caller = s.caller /\ req'[r].listening = s.listening /\ req'[r].missed = s.missed
        /\ req'[r].cleaned = s.cleaned /\ req'[r].cleanups = s.cleanups
        /\ req'[r].entry = FALSE /\ req'[r].cancelSub = FALSE
    BY <2>1, <2>2 DEF Slots
  <2>4. QED  BY <2>2, <2>3 DEF CutsOff, SameCaller, SameValues
<1>4. ns' \in [Namespaces -> Tables]
  <2>1. ns' = [n \in Namespaces |-> ns'[n]]
    BY <1>1
  <2>2. QED  BY <1>2, <2>1
<1>5. req' \in [Requests -> Slots]
  <2>1. req' = [r \in Requests |-> req'[r]]
    BY <1>1
  <2>2. QED  BY <1>3, <2>1
<1>6. QED  BY <1>2, <1>3, <1>4, <1>5 DEF Disconnected, DisconnectEnds

LEMMA StepEffects ==
    ASSUME ShapeInv, QueueInv, Next
    PROVE  Step
<1> USE DEF Step
<1>1. ASSUME NEW r \in Requests, CallerNext(r)  PROVE Step
  <2>1. CASE Call(r)
    BY <2>1, CallDoes, CallFailDoes
  <2>2. CASE TimeOut(r) \/ Leave(r)
    BY <2>2, TimeOutDoes, LeaveDoes
  <2>3. ASSUME NEW o \in {"ok", "error"}, GetReply(r, o)  PROVE Step
    BY <2>3, GetReplyDoes
  <2> HIDE DEF Step
  <2>4. QED  BY <1>1, <2>1, <2>2, <2>3 DEF CallerNext
<1>2. ASSUME NEW r \in Requests, ServerNext(r)  PROVE Step
  <2>1. CASE StartTask(r) \/ Answer(r) \/ ServiceAnswer(r) \/ Open(r)
    BY <2>1, StartTaskDoes, AnswerDoes, OpenDoes
  <2>2. CASE Track(r) \/ ServiceTrack(r) \/ Reply(r) \/ CancelDone(r) \/ SweepOne(r)
    BY <2>2, TrackDoes, ReplyDoes, CancelDoneDoes, SweepOneDoes
  <2>3. CASE OnCancel(r)
    <3>1. CASE req[r].cancelSub
      BY <2>3, <3>1, OnCancelDoes
    <3>2. CASE ~req[r].cancelSub
      <4>1. Cancelled(r)
        BY <2>3, <3>2 DEF OnCancel, Cancelled
      <4>2. QED  BY <4>1
    <3>3. QED  BY <3>1, <3>2
  <2> HIDE DEF Step
  <2>4. QED  BY <1>2, <2>1, <2>2, <2>3 DEF ServerNext
<1>3. ASSUME NEW r \in Requests, StreamEnds(r) \/ Emit(r)  PROVE Step
  BY <1>3, StreamEndsDoes, EmitDoes
<1>4. ASSUME NEW n \in Namespaces, HostNext(n)  PROVE Step
  <2>1. CASE Take(n)
    <3> DEFINE r == Head(ns[n].queue)
    <3>1. ns[n].queue \in Seq(Requests) /\ ns[n].queue # <<>>
      BY <2>1 DEF ShapeInv, Tables, Take
    <3>2. r \in Requests
      BY <3>1
    <3>3. Takes(n, r)
      BY <2>1, <3>2, TakeTaskDoes, TakeDoes
    <3> HIDE DEF r
    <3>4. QED  BY <3>2, <3>3
  <2>2. CASE RemoveTracked(n)
    BY <2>2, RemoveTrackedDoes
  <2>3. CASE Stopped(n)
    BY <2>3, StoppedDoes
  <2> HIDE DEF Step
  <2>4. QED  BY <1>4, <2>1, <2>2, <2>3 DEF HostNext
<1>5. ASSUME NEW n \in Namespaces, RemoveHandlers(n) \/ Stop(n)  PROVE Step
  BY <1>5, RemoveHandlersDoes, StopDoes
<1>6. CASE Disconnect
  <2>1. Disconnects
    BY <1>6 DEF Disconnect, Disconnects
  <2>2. QED  BY <2>1
<1>7. CASE Disconnected
  BY <1>7, DisconnectedDoes
<1>8. \A n \in Range(to) : n \in Namespaces
  BY DEF ShapeInv, Range
<1> HIDE DEF Step
<1>9. QED
  BY <1>1, <1>2, <1>3, <1>4, <1>5, <1>6, <1>7, <1>8 DEF Next

-----------------------------------------------------------------------------
(* What the operators on queues and on calls give. *)

LEMMA AppendQueue ==
    ASSUME NEW q \in Seq(Requests), NEW r \in Requests, r \notin Range(q), Distinct(q)
    PROVE  Distinct(Append(q, r)) /\ Range(Append(q, r)) = Range(q) \cup {r}
<1> DEFINE m == Len(q)
           a == Append(q, r)
<1>1. m \in Nat /\ Len(a) = m + 1 /\ DOMAIN q = 1..m /\ DOMAIN a = 1..(m + 1)
  OBVIOUS
<1>2. a[m + 1] = r /\ \A i \in 1..m : a[i] = q[i]
  OBVIOUS
<1>3. \A i \in 1..m : q[i] # r
  BY <1>1 DEF Range
<1>4. \A i, j \in 1..m : q[i] = q[j] => i = j
  BY DEF Distinct
<1> HIDE DEF m, a
<1>5. Distinct(a)
  <2> SUFFICES ASSUME NEW i \in 1..(m + 1), NEW j \in 1..(m + 1), a[i] = a[j]
               PROVE  i = j
    BY <1>1 DEF Distinct
  <2>1. CASE i \in 1..m /\ j \in 1..m   BY <2>1, <1>2, <1>4
  <2>2. CASE i \in 1..m /\ j = m + 1    BY <2>2, <1>2, <1>3
  <2>3. CASE i = m + 1 /\ j \in 1..m    BY <2>3, <1>2, <1>3
  <2>4. CASE i = m + 1 /\ j = m + 1     BY <2>4
  <2>5. (i \in 1..m \/ i = m + 1) /\ (j \in 1..m \/ j = m + 1)
    BY <1>1
  <2>6. QED  BY <2>1, <2>2, <2>3, <2>4, <2>5
<1>6. \A i \in 1..(m + 1) : i \in 1..m \/ i = m + 1
  BY <1>1
<1>7. 1..m \subseteq 1..(m + 1) /\ m + 1 \in 1..(m + 1)
  BY <1>1
<1>8. Range(a) = Range(q) \cup {r}
  BY <1>1, <1>2, <1>6, <1>7 DEF Range
<1>9. QED  BY <1>5, <1>8 DEF a

LEMMA TailQueue ==
    ASSUME NEW q \in Seq(Requests), q # <<>>, Distinct(q)
    PROVE  /\ Head(q) \in Range(q) /\ Head(q) \in Requests
           /\ Distinct(Tail(q)) /\ Range(Tail(q)) = Range(q) \ {Head(q)}
<1> DEFINE m == Len(q)
           t == Tail(q)
<1>1. m \in Nat \ {0} /\ Len(t) = m - 1 /\ DOMAIN q = 1..m /\ DOMAIN t = 1..(m - 1)
  OBVIOUS
<1>2. Head(q) = q[1] /\ \A i \in 1..(m - 1) : t[i] = q[i + 1]
  OBVIOUS
<1>3. \A i, j \in 1..m : q[i] = q[j] => i = j
  BY DEF Distinct
<1> HIDE DEF m, t
<1>4. 1 \in 1..m /\ \A i \in 1..(m - 1) : i + 1 \in 1..m /\ i + 1 # 1
  BY <1>1
<1>5. Head(q) \in Range(q) /\ Head(q) \in Requests
  BY <1>1, <1>2, <1>4 DEF Range
<1>6. Distinct(t)
  <2> SUFFICES ASSUME NEW i \in 1..(m - 1), NEW j \in 1..(m - 1), t[i] = t[j]
               PROVE  i = j
    BY <1>1 DEF Distinct
  <2>1. i + 1 = j + 1
    BY <1>2, <1>3, <1>4
  <2>2. QED  BY <2>1, <1>1
<1>7. ASSUME NEW x \in Range(t)
      PROVE  x \in Range(q) /\ x # q[1]
  <2>1. PICK i \in 1..(m - 1) : x = t[i]
    BY <1>1, <1>7 DEF Range
  <2>2. i + 1 \in 1..m /\ i + 1 # 1 /\ x = q[i + 1]
    BY <2>1, <1>2, <1>4
  <2>3. QED  BY <2>2, <1>1, <1>3, <1>4 DEF Range
<1>8. ASSUME NEW x \in Range(q), x # q[1]
      PROVE  x \in Range(t)
  <2>1. PICK i \in 1..m : x = q[i]
    BY <1>1, <1>8 DEF Range
  <2>2. i # 1
    BY <2>1, <1>8
  <2>3. i - 1 \in 1..(m - 1) /\ (i - 1) + 1 = i
    BY <2>2, <1>1
  <2>4. t[i - 1] = x
    BY <2>1, <2>3, <1>2
  <2>5. QED  BY <2>3, <2>4, <1>1 DEF Range
<1>9. Range(t) = Range(q) \ {Head(q)}
  BY <1>2, <1>7, <1>8
<1>10. QED  BY <1>5, <1>6, <1>9 DEF t

LEMMA EmptyQueue ==
    Distinct(<<>>) /\ Range(<<>>) = {}
<1>1. Len(<<>>) = 0 /\ DOMAIN <<>> = {}
  OBVIOUS
<1>2. QED  BY <1>1 DEF Distinct, Range

(* A stream is a stream and a callback a callback on both sides, and a client's
   dispatch sees what the proxy meant. *)
LEMMA Kinds ==
    ASSUME ShapeInv, NEW r \in Requests
    PROVE  /\ host = "client" => Handled(r) = Route(call[r])
           /\ Handled(r) = "stream" => Route(call[r]) = "stream"
           /\ Handled(r) = "callback" => Route(call[r]) = "callback"
           /\ Handled(r) = "callback" /\ Fits(r) => call[r].handler \in {"callback", "synccallback"}
<1>1. host \in {"client", "service"} /\ call[r] \in Shapes
  BY DEF ShapeInv
<1>2. call[r].arg = "none" => Handled(r) = Route(call[r])
  BY DEF Handled, ClientKind, ServiceKind
<1>3. host = "client" => Handled(r) = Route(call[r])
  BY DEF Handled, ClientKind
<1>4. host = "service" /\ call[r].arg # "none" => Handled(r) = "normal"
  BY DEF Handled, ServiceKind
<1>5. Handled(r) = "callback" /\ Fits(r) => call[r].handler \in {"callback", "synccallback"}
  BY DEF Fits
<1>6. QED  BY <1>1, <1>2, <1>3, <1>4, <1>5

LEMMA StillFixed ==
    ASSUME UNCHANGED fixed
    PROVE  /\ host' = host /\ to' = to /\ call' = call
           /\ \A r \in Requests : Handled(r)' = Handled(r) /\ Fits(r)' = Fits(r) /\ AsTask(r)' = AsTask(r)
<1>1. host' = host /\ to' = to /\ call' = call
  BY DEF fixed
<1>2. \A r \in Requests : Handled(r)' = Handled(r)
  BY <1>1 DEF Handled
<1>3. \A r \in Requests : AsTask(r)' = AsTask(r)
  BY <1>1, <1>2 DEF AsTask, ClientTask, ServiceTask
<1>4. \A r \in Requests : Fits(r)' = Fits(r)
  BY <1>1, <1>2 DEF Fits
<1>5. QED  BY <1>1, <1>2, <1>3, <1>4

(* The tasks of a client are its streams. *)
LEMMA TasksOfClients ==
    ASSUME NEW r \in Requests, host = "client", AsTask(r)
    PROVE  Handled(r) = "stream"
BY DEF AsTask, ClientTask

(* Only a request that waits for its turn or is being worked on is cut off. *)
Interrupts(r) ==
    \/ req'[r].srv = req[r].srv
    \/ req'[r].srv = "cut" /\ req[r].srv \in {"queued"} \cup Working

Spares(n, r) ==
    \/ ~Cut(n, r) /\ req'[r].srv = req[r].srv
    \/ Cut(n, r) /\ to[r] = n /\ req'[r].srv = "cut"

LEMMA CutsWork ==
    ASSUME QueueInv, NEW n \in Namespaces, NEW r \in Requests, CutsOff(n, r)
    PROVE  /\ SameCaller(r) /\ Interrupts(r) /\ Spares(n, r)
<1>1. Cut(n, r) => to[r] = n /\ req[r].srv \in {"queued"} \cup Working
  BY DEF QueueInv, Cut
<1>2. QED  BY <1>1 DEF CutsOff, Interrupts, Spares

-----------------------------------------------------------------------------
(* What the steps leave of the tables of all namespaces. *)
SameIds == \A m \in Namespaces : ns'[m].ids = ns[m].ids
SameStages == \A m \in Namespaces : ns'[m].stage = ns[m].stage
SameQueues == \A m \in Namespaces : ns'[m].queue = ns[m].queue
SameHands == \A m \in Namespaces : ns'[m].busy = ns[m].busy
FreesHands(r) ==
    \A m \in Namespaces :
        \/ ns[m].busy # r /\ ns'[m].busy = ns[m].busy
        \/ ns[m].busy = r /\ m = to[r] /\ ns'[m].busy = Idle

LEMMA BeginsFrame ==
    ASSUME NEW r \in Requests, Begins(r)
    PROVE  SameIds /\ SameStages /\ SameQueues /\ SameHands
BY DEF Begins, OnlyNs, SameStage, SameQueue, SameIds, SameStages, SameQueues, SameHands

LEMMA LetsGoFrame ==
    ASSUME ShapeInv, QueueInv, NEW r \in Requests, LetsGo(r)
    PROVE  SameIds /\ SameStages /\ SameQueues /\ FreesHands(r)
<1>1. SameIds /\ SameStages /\ SameQueues
  BY DEF LetsGo, OnlyNs, SameStage, SameQueue, SameIds, SameStages, SameQueues
<1>2. \A m \in Namespaces : ns[m].busy = r => m = to[r]
  BY DEF QueueInv
<1>3. /\ ns[to[r]].busy = r => ns'[to[r]].busy = Idle
      /\ ns[to[r]].busy # r => ns'[to[r]].busy = ns[to[r]].busy
  BY DEF LetsGo, Freed
<1>4. \A m \in Namespaces : m # to[r] => ns'[m].busy = ns[m].busy
  BY DEF LetsGo, OnlyNs
<1>5. FreesHands(r)
  BY <1>2, <1>3, <1>4 DEF FreesHands
<1>6. QED  BY <1>1, <1>5

LEMMA AnswersFrame ==
    ASSUME ShapeInv, QueueInv, NEW r \in Requests, Answers(r) \/ StreamDone(r) \/ Replies(r)
    PROVE  SameIds /\ SameStages /\ SameQueues /\ FreesHands(r)
<1>1. LetsGo(r)
  BY DEF Answers, Returns, StreamDone, Replies
<1>2. QED  BY <1>1, LetsGoFrame

LEMMA CallsInFrame ==
    ASSUME ShapeInv, NEW r \in Requests, CallsIn(r)
    PROVE  /\ SameIds /\ SameStages /\ SameHands
           /\ \A m \in Namespaces : m # to[r] => ns'[m].queue = ns[m].queue
BY DEF CallsIn, OnlyNs, SameStage, SameIds, SameStages, SameHands

LEMMA TakesFrame ==
    ASSUME ShapeInv, QueueInv, NEW n \in Namespaces, NEW r \in Requests, Takes(n, r)
    PROVE  /\ SameIds /\ SameStages /\ req[r].srv = "queued" /\ to[r] = n
           /\ r \in Range(ns[n].queue) /\ Distinct(ns'[n].queue)
           /\ Range(ns'[n].queue) = Range(ns[n].queue) \ {r}
           /\ \A m \in Namespaces : m # n => ns'[m].queue = ns[m].queue /\ ns'[m].busy = ns[m].busy
<1>1. SameIds /\ SameStages
  BY DEF Takes, OnlyNs, SameStage, SameIds, SameStages
<1>2. \A m \in Namespaces : m # n => ns'[m].queue = ns[m].queue /\ ns'[m].busy = ns[m].busy
  BY DEF Takes, OnlyNs
<1>3. ns[n].queue \in Seq(Requests) /\ ns[n].queue # <<>> /\ Distinct(ns[n].queue)
  BY DEF Takes, ShapeInv, Tables, QueueInv
<1>4. r = Head(ns[n].queue) /\ ns'[n].queue = Tail(ns[n].queue)
  BY DEF Takes
<1>5. r \in Range(ns[n].queue) /\ Distinct(ns'[n].queue) /\ Range(ns'[n].queue) = Range(ns[n].queue) \ {r}
  BY <1>3, <1>4, TailQueue
<1>6. req[r].srv = "queued" /\ to[r] = n
  BY <1>5 DEF QueueInv
<1>7. QED  BY <1>1, <1>2, <1>5, <1>6

LEMMA TracksFrame ==
    ASSUME ShapeInv, NEW r \in Requests, Tracks(r)
    PROVE  /\ SameStages /\ SameQueues /\ SameHands
           /\ \A m \in Namespaces, q \in Requests :
                q \in ns'[m].ids <=> q \in ns[m].ids \/ (q = r /\ m = to[r])
BY DEF Tracks, OnlyNs, SameQueue, SameStages, SameQueues, SameHands

(* The end of one message task, or of all of them. *)
LEMMA RemovesTaskFrame ==
    ASSUME NEW n \in Namespaces, RemovesTask(n)
    PROVE  /\ SameIds /\ EndsTask(n) /\ ns'[n].stage = "removing"
           /\ \A m \in Namespaces : m # n => ns'[m] = ns[m]
BY DEF RemovesTask, OnlyNs, EndsTask, SameIds

LEMMA StopEndsFrame ==
    ASSUME NEW n \in Namespaces, StopEnds(n)
    PROVE  /\ SameIds /\ ns'[n].stage = "removed"
           /\ \A m \in Namespaces : m # n => ns'[m] = ns[m]
BY DEF StopEnds, Stage, OnlyNs, EndsTask, SameIds

LEMMA DisconnectEndsFrame ==
    ASSUME DisconnectEnds
    PROVE  SameIds /\ SameStages
BY DEF DisconnectEnds, EndsTask, SameIds, SameStages

(* A request that is not registered has no reason to be that it did not have. *)
Founded(q) ==
    \/ q \in ns'[to[q]].ids
    \/ /\ req'[q].entry => req[q].entry
       /\ req'[q].cancelSub => req[q].cancelSub
       /\ q \in swept' => q \in swept
       /\ q \in cancels' => q \in cancels
       /\ host = "client" /\ Route(call[q]) = "callback" =>
             /\ req'[q].caller = "ok" => req[q].caller = "ok" \/ <<q, "ok">> \in replies
             /\ <<q, "ok">> \in replies' => <<q, "ok">> \in replies

LEMMA StillTracked ==
    ASSUME ShapeInv, TrackedInv, UNCHANGED fixed,
           \A m \in Namespaces : ns[m].ids \subseteq ns'[m].ids,
           \A q \in Requests : Founded(q)
    PROVE  TrackedInv'
<1>1. host' = host /\ to' = to /\ call' = call /\ to \in [Requests -> Namespaces]
  BY DEF fixed, ShapeInv
<1> SUFFICES ASSUME NEW q \in Requests
             PROVE  /\ host = "client" /\ Route(call[q]) = "callback" =>
                          (req'[q].caller = "ok" \/ <<q, "ok">> \in replies' => q \in ns'[to[q]].ids)
                    /\ req'[q].entry => q \in ns'[to[q]].ids
                    /\ req'[q].cancelSub => q \in ns'[to[q]].ids
                    /\ q \in swept' => q \in ns'[to[q]].ids
                    /\ q \in cancels' => q \in ns'[to[q]].ids
  BY <1>1 DEF TrackedInv
<1>2. q \in ns[to[q]].ids => q \in ns'[to[q]].ids
  BY <1>1
<1>3. Founded(q)
  OBVIOUS
<1>4. /\ host = "client" /\ Route(call[q]) = "callback" =>
            (req[q].caller = "ok" \/ <<q, "ok">> \in replies => q \in ns[to[q]].ids)
      /\ req[q].entry => q \in ns[to[q]].ids
      /\ req[q].cancelSub => q \in ns[to[q]].ids
      /\ q \in swept => q \in ns[to[q]].ids
      /\ q \in cancels => q \in ns[to[q]].ids
  BY DEF TrackedInv
<1>5. QED  BY <1>2, <1>3, <1>4 DEF Founded

-----------------------------------------------------------------------------

(* Every variable keeps its type. *)
LEMMA ShapeStep ==
    ASSUME ShapeInv, Step
    PROVE  ShapeInv'
<1> USE StillFixed DEF ShapeInv
<1>1. ASSUME NEW r \in Requests, CallsIn(r) PROVE ShapeInv'
  BY <1>1 DEF CallsIn, Only, SameClean, SameValues, OnlyNs, SameStage
<1>2. ASSUME NEW r \in Requests, CallFails(r) PROVE ShapeInv'
  BY <1>2 DEF CallFails, Only, SameWork, SameClean, SameValues
<1>3. ASSUME NEW r \in Requests, GivesUp(r) PROVE ShapeInv'
  BY <1>3 DEF GivesUp, Only, SameWork, SameClean, SameValues
<1>4. ASSUME NEW r \in Requests, Leaves(r) PROVE ShapeInv'
  BY <1>4 DEF Leaves, Only, SameWork, SameClean, SameValues
<1>5. ASSUME NEW r \in Requests, Begins(r) PROVE ShapeInv'
  BY <1>5 DEF Begins, Only, SameCaller, SameClean, SameValues, OnlyNs, SameStage, SameQueue
<1>6. ASSUME NEW r \in Requests, Answers(r) PROVE ShapeInv'
  BY <1>6
     DEF Answers, Sends, Returns, Only, SameCaller, SameClean, SameValues, LetsGo, OnlyNs, SameStage,
         SameQueue, Freed
<1>7. ASSUME NEW r \in Requests, Opens(r) PROVE ShapeInv'
  BY <1>7 DEF Opens, Only, SameCaller, SameClean, SameValues
<1>8. ASSUME NEW r \in Requests, StreamDone(r) PROVE ShapeInv'
  BY <1>8 DEF StreamDone, Only, SameClean, SameValues, LetsGo, OnlyNs, SameStage, SameQueue, Freed
<1>9. ASSUME NEW r \in Requests, Tracks(r) PROVE ShapeInv'
  BY <1>9 DEF Tracks, Only, SameCaller, SameValues, OnlyNs, SameQueue
<1>10. ASSUME NEW r \in Requests, Replies(r) PROVE ShapeInv'
  BY <1>10
     DEF Replies, Only, SameCaller, SameClean, SameValues, LetsGo, Sends, OnlyNs, SameStage, SameQueue,
         Freed
<1>11. ASSUME NEW r \in Requests, Emits(r) PROVE ShapeInv'
  BY <1>11 DEF Emits, Only, SameCaller, SameWork, SameClean, SameValues
<1>12. ASSUME NEW r \in Requests, Cancelled(r) PROVE ShapeInv'
  BY <1>12 DEF Cancelled, CleansUp, Only, SameCaller, SameValues
<1>13. ASSUME NEW r \in Requests, CancelEnds(r) PROVE ShapeInv'
  BY <1>13 DEF CancelEnds, Only, SameCaller, SameValues
<1>14. ASSUME NEW r \in Requests, SweepsOne(r) PROVE ShapeInv'
  BY <1>14 DEF SweepsOne, CleansOut, CleansUp, Only, SameCaller, SameValues
<1>15. ASSUME NEW r \in Requests, NEW o \in {"ok", "error"}, Hears(r, o) PROVE ShapeInv'
  BY <1>15 DEF Hears, Only, SameWork, SameClean, SameValues
<1>16. ASSUME NEW r \in Requests, NEW n \in Namespaces, Takes(n, r) PROVE ShapeInv'
  BY <1>16 DEF Takes, Only, SameCaller, SameClean, SameValues, OnlyNs, SameStage
<1>17. ASSUME NEW r \in Requests, NEW n \in Namespaces, Removes(n, r) PROVE ShapeInv'
  BY <1>17 DEF Removes, CleansOut, CleansUp, Only, SameCaller, SameValues
<1>18. ASSUME NEW n \in Namespaces, RemovesAll(n) PROVE ShapeInv'
  BY <1>18 DEF RemovesAll, Stage, OnlyNs, SameQueue
<1>19. ASSUME NEW n \in Namespaces, Stops(n) PROVE ShapeInv'
  <2>1. ns[n].ids \subseteq Requests
    BY DEF Tables
  <2>2. QED  BY <1>19, <2>1 DEF Stops, Stage, OnlyNs, SameQueue
<1>20. ASSUME NEW n \in Namespaces, RemovesTask(n) PROVE ShapeInv'
  BY <1>20 DEF RemovesTask, SameClean, OnlyNs, CutsOff, EndsTask, SameCaller, SameValues, Cut
<1>21. ASSUME NEW n \in Namespaces, StopEnds(n) PROVE ShapeInv'
  BY <1>21
     DEF StopEnds, SameCaller, SameWork, SameValues, OnlyNs, Stage, CutsOff, EndsTask, SameQueue, Cut
<1>22. CASE Disconnects
  BY <1>22 DEF Disconnects
<1>23. CASE DisconnectEnds
  BY <1>23 DEF DisconnectEnds, CutsOff, EndsTask, SameCaller, SameValues, Cut
<1> HIDE DEF ShapeInv
<1>24. QED
  BY <1>1, <1>2, <1>3, <1>4, <1>5, <1>6, <1>7, <1>8, <1>9, <1>10, <1>11, <1>12, <1>13, <1>14,
     <1>15, <1>16, <1>17, <1>18, <1>19, <1>20, <1>21, <1>22, <1>23 DEF Step

(* A reply finds the call still waiting. *)
LEMMA CallerStep ==
    ASSUME ShapeInv, CallerInv, QueueInv, OpenInv, Step
    PROVE  CallerInv'
<1>p0. to \in [Requests -> Namespaces]
  BY DEF ShapeInv
<1> USE StillFixed, <1>p0 DEF CallerInv
<1>1. ASSUME NEW r \in Requests, CallsIn(r) PROVE CallerInv'
  BY <1>1 DEF CallsIn, Only
<1>2. ASSUME NEW r \in Requests, CallFails(r) PROVE CallerInv'
  BY <1>2 DEF CallFails, Only, SameWork
<1>3. ASSUME NEW r \in Requests, GivesUp(r) PROVE CallerInv'
  BY <1>3 DEF GivesUp, Only, SameWork
<1>4. ASSUME NEW r \in Requests, Leaves(r) PROVE CallerInv'
  BY <1>4 DEF Leaves, Only, SameWork
<1>5. ASSUME NEW r \in Requests, Begins(r) PROVE CallerInv'
  BY <1>5 DEF Begins, Only, SameCaller
<1>6. ASSUME NEW r \in Requests, Answers(r) PROVE CallerInv'
  <2>1. /\ UNCHANGED <<fixed, cancels>>
        /\ req[r].srv = "invoke" /\ req'[r].srv = "done" /\ Only(r) /\ SameCaller(r)
    BY <1>6 DEF Answers, Returns, Replies
  <2>2. \/ replies' = replies
        \/ \E x \in {"ok", "error"} :
              /\ replies' = replies \cup {<<r, x>>}
              /\ req[r].caller = "waiting" /\ Route(call[r]) /= "stream"
    BY <1>6 DEF Answers, Returns, Sends
  <2>3. CASE replies' = replies
    BY <2>1, <2>3 DEF Only, SameCaller
  <2>4. ASSUME NEW x \in {"ok", "error"}, replies' = replies \cup {<<r, x>>},
               req[r].caller = "waiting", Route(call[r]) /= "stream"
        PROVE  CallerInv'
    <3>1. <<r, "ok">> \notin replies /\ <<r, "error">> \notin replies
      BY <2>1
    <3>2. /\ <<r, "ok">> \in replies' => x = "ok"
          /\ <<r, "error">> \in replies' => x = "error"
      BY <2>4, <3>1
    <3>3. \A q \in Requests : q /= r =>
            /\ <<q, "ok">> \in replies' => <<q, "ok">> \in replies
            /\ <<q, "error">> \in replies' => <<q, "error">> \in replies
      BY <2>4
    <3>4. QED  BY <2>1, <2>4, <3>2, <3>3 DEF Only, SameCaller
  <2>5. QED  BY <2>2, <2>3, <2>4
<1>7. ASSUME NEW r \in Requests, Opens(r) PROVE CallerInv'
  BY <1>7 DEF Opens, Only, SameCaller
<1>8. ASSUME NEW r \in Requests, StreamDone(r) PROVE CallerInv'
  BY <1>8 DEF StreamDone, Only
<1>9. ASSUME NEW r \in Requests, Tracks(r) PROVE CallerInv'
  <2>1. /\ UNCHANGED <<fixed, replies, cancels>>
        /\ req[r].srv = "subscribe" /\ req'[r].srv = "reply" /\ Only(r) /\ SameCaller(r)
    BY <1>9 DEF Tracks
  <2>2. QED  BY <2>1 DEF Only, SameCaller
<1>10. ASSUME NEW r \in Requests, Replies(r) PROVE CallerInv'
  <2>1. /\ UNCHANGED <<fixed, cancels>>
        /\ req[r].srv = "reply" /\ req'[r].srv = "done" /\ Only(r) /\ SameCaller(r)
    BY <1>10 DEF Answers, Returns, Replies
  <2>2. \/ replies' = replies
        \/ \E x \in {"ok", "error"} :
              /\ replies' = replies \cup {<<r, x>>}
              /\ req[r].caller = "waiting" /\ Route(call[r]) /= "stream"
    BY <1>10 DEF Replies, Sends
  <2>3. CASE replies' = replies
    BY <2>1, <2>3 DEF Only, SameCaller
  <2>4. ASSUME NEW x \in {"ok", "error"}, replies' = replies \cup {<<r, x>>},
               req[r].caller = "waiting", Route(call[r]) /= "stream"
        PROVE  CallerInv'
    <3>1. <<r, "ok">> \notin replies /\ <<r, "error">> \notin replies
      BY <2>1
    <3>2. /\ <<r, "ok">> \in replies' => x = "ok"
          /\ <<r, "error">> \in replies' => x = "error"
      BY <2>4, <3>1
    <3>3. \A q \in Requests : q /= r =>
            /\ <<q, "ok">> \in replies' => <<q, "ok">> \in replies
            /\ <<q, "error">> \in replies' => <<q, "error">> \in replies
      BY <2>4
    <3>4. QED  BY <2>1, <2>4, <3>2, <3>3 DEF Only, SameCaller
  <2>5. QED  BY <2>2, <2>3, <2>4
<1>11. ASSUME NEW r \in Requests, Emits(r) PROVE CallerInv'
  BY <1>11 DEF Emits, Only, SameCaller, SameWork
<1>12. ASSUME NEW r \in Requests, Cancelled(r) PROVE CallerInv'
  BY <1>12 DEF Cancelled, CleansUp, Only, SameCaller
<1>13. ASSUME NEW r \in Requests, CancelEnds(r) PROVE CallerInv'
  BY <1>13 DEF CancelEnds, Only, SameCaller
<1>14. ASSUME NEW r \in Requests, SweepsOne(r) PROVE CallerInv'
  BY <1>14 DEF SweepsOne, CleansOut, CleansUp, Only, SameCaller
<1>15. ASSUME NEW r \in Requests, NEW o \in {"ok", "error"}, Hears(r, o) PROVE CallerInv'
  BY <1>15 DEF Hears, Only, SameWork
<1>16. ASSUME NEW r \in Requests, NEW n \in Namespaces, Takes(n, r) PROVE CallerInv'
  <2>1. req[r].srv = "queued"
    BY <1>16, TailQueue DEF Takes, QueueInv, ShapeInv, Tables
  <2>2. /\ UNCHANGED <<fixed, replies, cancels>> /\ Only(r) /\ SameCaller(r)
        /\ req'[r].srv \in {"task", "invoke"}
    BY <1>16 DEF Takes
  <2>3. QED  BY <2>1, <2>2 DEF Only, SameCaller
<1>17. ASSUME NEW r \in Requests, NEW n \in Namespaces, Removes(n, r) PROVE CallerInv'
  BY <1>17 DEF Removes, CleansOut, CleansUp, Only, SameCaller
<1>18. ASSUME NEW n \in Namespaces, RemovesAll(n) PROVE CallerInv'
  BY <1>18 DEF RemovesAll
<1>19. ASSUME NEW n \in Namespaces, Stops(n) PROVE CallerInv'
  BY <1>19 DEF Stops
<1>20. ASSUME NEW n \in Namespaces, RemovesTask(n) PROVE CallerInv'
  <2>1. \A r \in Requests : SameCaller(r)
    BY <1>20, CutsWork, <1>p0 DEF RemovesTask
  <2>2. \A r \in Requests : Interrupts(r)
    BY <1>20, CutsWork, <1>p0 DEF RemovesTask
  <2>3. UNCHANGED <<fixed, replies, cancels>>
    BY <1>20 DEF RemovesTask
  <2>4. QED  BY <2>1, <2>2, <2>3 DEF SameCaller, Interrupts, Working
<1>21. ASSUME NEW n \in Namespaces, StopEnds(n) PROVE CallerInv'
  <2>1. \A r \in Requests : SameCaller(r)
    BY <1>21, CutsWork DEF StopEnds, SameWork, Interrupts
  <2>2. \A r \in Requests : Interrupts(r)
    BY <1>21, CutsWork DEF StopEnds, SameWork, Interrupts
  <2>3. UNCHANGED <<fixed, replies, cancels>>
    BY <1>21 DEF StopEnds
  <2>4. QED  BY <2>1, <2>2, <2>3 DEF SameCaller, Interrupts, Working
<1>22. CASE Disconnects
  BY <1>22 DEF Disconnects
<1>23. CASE DisconnectEnds
  <2>1. \A r \in Requests : SameCaller(r)
    BY <1>23, CutsWork, <1>p0 DEF DisconnectEnds
  <2>2. \A r \in Requests : Interrupts(r)
    BY <1>23, CutsWork, <1>p0 DEF DisconnectEnds
  <2>3. UNCHANGED <<fixed, replies, cancels>>
    BY <1>23 DEF DisconnectEnds
  <2>4. QED  BY <2>1, <2>2, <2>3 DEF SameCaller, Interrupts, Working
<1> HIDE DEF CallerInv
<1>24. QED
  BY <1>1, <1>2, <1>3, <1>4, <1>5, <1>6, <1>7, <1>8, <1>9, <1>10, <1>11, <1>12, <1>13, <1>14,
     <1>15, <1>16, <1>17, <1>18, <1>19, <1>20, <1>21, <1>22, <1>23 DEF Step

(* A caller stops listening only with the call. *)
LEMMA ListenStep ==
    ASSUME ShapeInv, CallerInv, OpenInv, ListenInv, Step
    PROVE  ListenInv'
<1>p0. to \in [Requests -> Namespaces]
  BY DEF ShapeInv
<1> USE StillFixed, <1>p0 DEF ListenInv
<1>1. ASSUME NEW r \in Requests, CallsIn(r) PROVE ListenInv'
  BY <1>1 DEF CallsIn, Only
<1>2. ASSUME NEW r \in Requests, CallFails(r) PROVE ListenInv'
  BY <1>2 DEF CallFails, Only
<1>3. ASSUME NEW r \in Requests, GivesUp(r) PROVE ListenInv'
  BY <1>3 DEF GivesUp, Only
<1>4. ASSUME NEW r \in Requests, Leaves(r) PROVE ListenInv'
  BY <1>4 DEF Leaves, Only
<1>5. ASSUME NEW r \in Requests, Begins(r) PROVE ListenInv'
  BY <1>5 DEF Begins, Only, SameCaller
<1>6. ASSUME NEW r \in Requests, Answers(r) PROVE ListenInv'
  BY <1>6 DEF Answers, Sends, Returns, Only, SameCaller
<1>7. ASSUME NEW r \in Requests, Opens(r) PROVE ListenInv'
  BY <1>7 DEF Opens, Only, SameCaller
<1>8. ASSUME NEW r \in Requests, StreamDone(r) PROVE ListenInv'
  <2>1. Route(call[r]) /= "callback"
    BY <1>8, Kinds DEF StreamDone, OpenInv
  <2>2. QED  BY <1>8, <2>1 DEF StreamDone, Only
<1>9. ASSUME NEW r \in Requests, Tracks(r) PROVE ListenInv'
  BY <1>9 DEF Tracks, Only, SameCaller
<1>10. ASSUME NEW r \in Requests, Replies(r) PROVE ListenInv'
  BY <1>10 DEF Replies, Only, SameCaller, Sends
<1>11. ASSUME NEW r \in Requests, Emits(r) PROVE ListenInv'
  BY <1>11 DEF Emits, Only, SameCaller
<1>12. ASSUME NEW r \in Requests, Cancelled(r) PROVE ListenInv'
  BY <1>12 DEF Cancelled, CleansUp, Only, SameCaller
<1>13. ASSUME NEW r \in Requests, CancelEnds(r) PROVE ListenInv'
  BY <1>13 DEF CancelEnds, Only, SameCaller
<1>14. ASSUME NEW r \in Requests, SweepsOne(r) PROVE ListenInv'
  BY <1>14 DEF SweepsOne, CleansOut, CleansUp, Only, SameCaller
<1>15. ASSUME NEW r \in Requests, NEW o \in {"ok", "error"}, Hears(r, o) PROVE ListenInv'
  BY <1>15 DEF Hears, Only, CallerInv
<1>16. ASSUME NEW r \in Requests, NEW n \in Namespaces, Takes(n, r) PROVE ListenInv'
  BY <1>16 DEF Takes, Only, SameCaller
<1>17. ASSUME NEW r \in Requests, NEW n \in Namespaces, Removes(n, r) PROVE ListenInv'
  BY <1>17 DEF Removes, CleansOut, CleansUp, Only, SameCaller
<1>18. ASSUME NEW n \in Namespaces, RemovesAll(n) PROVE ListenInv'
  BY <1>18 DEF RemovesAll
<1>19. ASSUME NEW n \in Namespaces, Stops(n) PROVE ListenInv'
  BY <1>19 DEF Stops
<1>20. ASSUME NEW n \in Namespaces, RemovesTask(n) PROVE ListenInv'
  BY <1>20 DEF RemovesTask, CutsOff, SameCaller, Cut
<1>21. ASSUME NEW n \in Namespaces, StopEnds(n) PROVE ListenInv'
  BY <1>21 DEF StopEnds, SameCaller, CutsOff, Cut
<1>22. CASE Disconnects
  BY <1>22 DEF Disconnects
<1>23. CASE DisconnectEnds
  BY <1>23 DEF DisconnectEnds, CutsOff, SameCaller, Cut
<1> HIDE DEF ListenInv
<1>24. QED
  BY <1>1, <1>2, <1>3, <1>4, <1>5, <1>6, <1>7, <1>8, <1>9, <1>10, <1>11, <1>12, <1>13, <1>14,
     <1>15, <1>16, <1>17, <1>18, <1>19, <1>20, <1>21, <1>22, <1>23 DEF Step

(* A request stays with its namespace until it is done or cut off. *)
LEMMA QueueStep ==
    ASSUME ShapeInv, CallerInv, QueueInv, Step
    PROVE  QueueInv'
<1>p0. to \in [Requests -> Namespaces]
  BY DEF ShapeInv
<1> USE StillFixed, <1>p0 DEF QueueInv
<1>1. ASSUME NEW r \in Requests, CallsIn(r) PROVE QueueInv'
  <2>1. req[r].srv = "none" /\ r \notin Range(ns[to[r]].queue)
    BY <1>1 DEF CallsIn, CallerInv
  <2>2. ns[to[r]].queue \in Seq(Requests) /\ ns'[to[r]].queue = Append(ns[to[r]].queue, r)
    BY <1>1 DEF CallsIn, ShapeInv, Tables
  <2>3. /\ Distinct(ns'[to[r]].queue) /\ Range(ns'[to[r]].queue) = Range(ns[to[r]].queue) \cup {r}
        /\ SameHands /\ \A m \in Namespaces : m /= to[r] => ns'[m].queue = ns[m].queue
    BY <1>1, <2>1, <2>2, AppendQueue, CallsInFrame
  <2>4. UNCHANGED fixed /\ Only(r) /\ req'[r].srv = "queued"
    BY <1>1 DEF CallsIn
  <2>5. QED  BY <2>1, <2>3, <2>4 DEF Only, SameHands, Working
<1>2. ASSUME NEW r \in Requests, CallFails(r) PROVE QueueInv'
  BY <1>2 DEF CallFails, Only, SameWork
<1>3. ASSUME NEW r \in Requests, GivesUp(r) PROVE QueueInv'
  BY <1>3 DEF GivesUp, Only, SameWork
<1>4. ASSUME NEW r \in Requests, Leaves(r) PROVE QueueInv'
  BY <1>4 DEF Leaves, Only, SameWork
<1>5. ASSUME NEW r \in Requests, Begins(r) PROVE QueueInv'
  <2>1. SameIds /\ SameStages /\ SameQueues /\ SameHands
    BY <1>5, BeginsFrame
  <2>2. QED  BY <1>5, <2>1 DEF Begins, Only, SameIds, SameStages, SameQueues, SameHands, Working
<1>6. ASSUME NEW r \in Requests, Answers(r) PROVE QueueInv'
  <2>1. SameIds /\ SameStages /\ SameQueues /\ FreesHands(r)
    BY <1>6, AnswersFrame
  <2>2. QED  BY <1>6, <2>1, EndpointAssumption
                DEF Answers, Sends, Returns, Only, SameIds, SameStages, SameQueues, FreesHands, Working
<1>7. ASSUME NEW r \in Requests, Opens(r) PROVE QueueInv'
  BY <1>7 DEF Opens, Only, Working
<1>8. ASSUME NEW r \in Requests, StreamDone(r) PROVE QueueInv'
  <2>1. SameIds /\ SameStages /\ SameQueues /\ FreesHands(r)
    BY <1>8, AnswersFrame
  <2>2. QED  BY <1>8, <2>1, EndpointAssumption
                DEF StreamDone, Only, SameIds, SameStages, SameQueues, FreesHands, Working
<1>9. ASSUME NEW r \in Requests, Tracks(r) PROVE QueueInv'
  <2>1. /\ SameStages /\ SameQueues /\ SameHands
        /\ \A m \in Namespaces, q \in Requests :
              q \in ns'[m].ids <=> q \in ns[m].ids \/ (q = r /\ m = to[r])
    BY <1>9, TracksFrame
  <2>2. QED  BY <1>9, <2>1 DEF Tracks, Only, SameStages, SameQueues, SameHands, Working
<1>10. ASSUME NEW r \in Requests, Replies(r) PROVE QueueInv'
  <2>1. SameIds /\ SameStages /\ SameQueues /\ FreesHands(r)
    BY <1>10, AnswersFrame
  <2>2. QED  BY <1>10, <2>1, EndpointAssumption
                DEF Replies, Only, Sends, SameIds, SameStages, SameQueues, FreesHands, Working
<1>11. ASSUME NEW r \in Requests, Emits(r) PROVE QueueInv'
  BY <1>11 DEF Emits, Only, SameWork
<1>12. ASSUME NEW r \in Requests, Cancelled(r) PROVE QueueInv'
  BY <1>12 DEF Cancelled, CleansUp, Only
<1>13. ASSUME NEW r \in Requests, CancelEnds(r) PROVE QueueInv'
  BY <1>13 DEF CancelEnds, Only
<1>14. ASSUME NEW r \in Requests, SweepsOne(r) PROVE QueueInv'
  BY <1>14 DEF SweepsOne, CleansOut, CleansUp, Only
<1>15. ASSUME NEW r \in Requests, NEW o \in {"ok", "error"}, Hears(r, o) PROVE QueueInv'
  BY <1>15 DEF Hears, Only, SameWork
<1>16. ASSUME NEW r \in Requests, NEW n \in Namespaces, Takes(n, r) PROVE QueueInv'
  <2>1. /\ req[r].srv = "queued" /\ to[r] = n /\ r \in Range(ns[n].queue) /\ Distinct(ns'[n].queue)
        /\ Range(ns'[n].queue) = Range(ns[n].queue) \ {r}
        /\ \A m \in Namespaces : m /= n => ns'[m].queue = ns[m].queue /\ ns'[m].busy = ns[m].busy
    BY <1>16, TakesFrame
  <2>2. /\ UNCHANGED fixed /\ Only(r) /\ ns[n].busy = Idle
        /\ \/ AsTask(r) /\ req'[r].srv = "task" /\ ns'[n].busy = Idle
           \/ ~AsTask(r) /\ req'[r].srv = "invoke" /\ ns'[n].busy = r
    BY <1>16 DEF Takes
  <2>3. QED  BY <2>1, <2>2, EndpointAssumption DEF Only, Working
<1>17. ASSUME NEW r \in Requests, NEW n \in Namespaces, Removes(n, r) PROVE QueueInv'
  BY <1>17 DEF Removes, CleansOut, CleansUp, Only
<1>18. ASSUME NEW n \in Namespaces, RemovesAll(n) PROVE QueueInv'
  BY <1>18 DEF RemovesAll, Stage, OnlyNs, SameQueue
<1>19. ASSUME NEW n \in Namespaces, Stops(n) PROVE QueueInv'
  BY <1>19 DEF Stops, Stage, OnlyNs, SameQueue
<1>20. ASSUME NEW n \in Namespaces, RemovesTask(n) PROVE QueueInv'
  <2>1. \A q \in Requests : Spares(n, q)
    BY <1>20, CutsWork DEF RemovesTask
  <2>2. /\ UNCHANGED fixed /\ ns'[n].queue = <<>> /\ ns'[n].busy = Idle
        /\ \A m \in Namespaces : m /= n => ns'[m] = ns[m]
    BY <1>20 DEF RemovesTask, EndsTask, OnlyNs
  <2>3. QED  BY <2>1, <2>2, EmptyQueue, EndpointAssumption DEF Spares, Cut, Working
<1>21. ASSUME NEW n \in Namespaces, StopEnds(n) PROVE QueueInv'
  <2>1. CASE (\A q \in Requests : SameWork(q)) /\ Stage(n, "removed")
    BY <1>21, <2>1 DEF StopEnds, SameWork, Stage, OnlyNs, SameQueue
  <2>2. CASE (\A q \in Requests : CutsOff(n, q)) /\ OnlyNs(n) /\ EndsTask(n)
    <3>1. \A q \in Requests : Spares(n, q)
      BY <2>2, CutsWork
    <3>2. /\ UNCHANGED fixed /\ ns'[n].queue = <<>> /\ ns'[n].busy = Idle
          /\ \A m \in Namespaces : m /= n => ns'[m] = ns[m]
      BY <1>21, <2>2 DEF StopEnds, EndsTask, OnlyNs
    <3>3. QED  BY <3>1, <3>2, EmptyQueue, EndpointAssumption DEF Spares, Cut, Working
  <2>3. QED  BY <1>21, <2>1, <2>2 DEF StopEnds
<1>22. CASE Disconnects
  BY <1>22 DEF Disconnects
<1>23. CASE DisconnectEnds
  <2>1. \A q \in Requests : Spares(to[q], q)
    BY <1>23, CutsWork DEF DisconnectEnds
  <2>2. UNCHANGED fixed /\ \A m \in Namespaces : ns'[m].queue = <<>> /\ ns'[m].busy = Idle
    BY <1>23 DEF DisconnectEnds, EndsTask
  <2>3. QED  BY <2>1, <2>2, EmptyQueue, EndpointAssumption DEF Spares, Cut, Working
<1> HIDE DEF QueueInv
<1>24. QED
  BY <1>1, <1>2, <1>3, <1>4, <1>5, <1>6, <1>7, <1>8, <1>9, <1>10, <1>11, <1>12, <1>13, <1>14,
     <1>15, <1>16, <1>17, <1>18, <1>19, <1>20, <1>21, <1>22, <1>23 DEF Step

(* Something is opened by a handler that fits, and only then. *)
LEMMA OpenStep ==
    ASSUME ShapeInv, CallerInv, QueueInv, OpenInv, CleanInv, IdsInv, TrackedInv, Step
    PROVE  OpenInv'
<1>p0. to \in [Requests -> Namespaces]
  BY DEF ShapeInv
<1> USE StillFixed, <1>p0 DEF OpenInv
<1>1. ASSUME NEW r \in Requests, CallsIn(r) PROVE OpenInv'
  <2>1. /\ UNCHANGED fixed /\ Only(r) /\ req[r].srv = "none" /\ req'[r].srv = "queued"
        /\ req'[r].resource = req[r].resource
    BY <1>1 DEF CallsIn, CallerInv
  <2>2. QED  BY <2>1 DEF Only
<1>2. ASSUME NEW r \in Requests, CallFails(r) PROVE OpenInv'
  BY <1>2 DEF CallFails, Only, SameWork, SameClean
<1>3. ASSUME NEW r \in Requests, GivesUp(r) PROVE OpenInv'
  BY <1>3 DEF GivesUp, Only, SameWork, SameClean
<1>4. ASSUME NEW r \in Requests, Leaves(r) PROVE OpenInv'
  BY <1>4 DEF Leaves, Only, SameWork, SameClean
<1>5. ASSUME NEW r \in Requests, Begins(r) PROVE OpenInv'
  BY <1>5 DEF Begins, Only, SameClean
<1>6. ASSUME NEW r \in Requests, Answers(r) PROVE OpenInv'
  BY <1>6 DEF Answers, Sends, Returns, Only, SameClean
<1>7. ASSUME NEW r \in Requests, Opens(r) PROVE OpenInv'
  BY <1>7 DEF Opens, Only, SameClean
<1>8. ASSUME NEW r \in Requests, StreamDone(r) PROVE OpenInv'
  BY <1>8 DEF StreamDone, Only, SameClean
<1>9. ASSUME NEW r \in Requests, Tracks(r) PROVE OpenInv'
  BY <1>9 DEF Tracks, Only
<1>10. ASSUME NEW r \in Requests, Replies(r) PROVE OpenInv'
  BY <1>10 DEF Replies, Only, SameClean, Sends
<1>11. ASSUME NEW r \in Requests, Emits(r) PROVE OpenInv'
  BY <1>11 DEF Emits, Only, SameWork, SameClean
<1>12. ASSUME NEW r \in Requests, Cancelled(r) PROVE OpenInv'
  <2>1. req[r].srv \in {"reply", "done", "cut"}
    BY <1>12 DEF Cancelled, TrackedInv, IdsInv
  <2>2. QED  BY <1>12, <2>1 DEF Cancelled, CleansUp, Only
<1>13. ASSUME NEW r \in Requests, CancelEnds(r) PROVE OpenInv'
  BY <1>13 DEF CancelEnds, Only
<1>14. ASSUME NEW r \in Requests, SweepsOne(r) PROVE OpenInv'
  <2>1. req[r].srv \in {"reply", "done", "cut"}
    BY <1>14 DEF SweepsOne, TrackedInv, IdsInv
  <2>2. QED  BY <1>14, <2>1 DEF SweepsOne, CleansOut, CleansUp, Only
<1>15. ASSUME NEW r \in Requests, NEW o \in {"ok", "error"}, Hears(r, o) PROVE OpenInv'
  BY <1>15 DEF Hears, Only, SameWork, SameClean
<1>16. ASSUME NEW r \in Requests, NEW n \in Namespaces, Takes(n, r) PROVE OpenInv'
  <2>1. req[r].srv = "queued"
    BY <1>16, TakesFrame
  <2>2. /\ UNCHANGED fixed /\ Only(r) /\ req'[r].srv \in {"task", "invoke"}
        /\ req'[r].resource = req[r].resource
    BY <1>16 DEF Takes
  <2>3. QED  BY <2>1, <2>2 DEF Only
<1>17. ASSUME NEW r \in Requests, NEW n \in Namespaces, Removes(n, r) PROVE OpenInv'
  BY <1>17 DEF Removes, CleansOut, CleansUp, Only, IdsInv
<1>18. ASSUME NEW n \in Namespaces, RemovesAll(n) PROVE OpenInv'
  BY <1>18 DEF RemovesAll
<1>19. ASSUME NEW n \in Namespaces, Stops(n) PROVE OpenInv'
  BY <1>19 DEF Stops
<1>20. ASSUME NEW n \in Namespaces, RemovesTask(n) PROVE OpenInv'
  BY <1>20 DEF RemovesTask, SameClean, CutsOff, Cut
<1>21. ASSUME NEW n \in Namespaces, StopEnds(n) PROVE OpenInv'
  BY <1>21 DEF StopEnds, SameWork, CutsOff, Cut
<1>22. CASE Disconnects
  BY <1>22 DEF Disconnects
<1>23. CASE DisconnectEnds
  BY <1>23 DEF DisconnectEnds, CutsOff, Cut
<1> HIDE DEF OpenInv
<1>24. QED
  BY <1>1, <1>2, <1>3, <1>4, <1>5, <1>6, <1>7, <1>8, <1>9, <1>10, <1>11, <1>12, <1>13, <1>14,
     <1>15, <1>16, <1>17, <1>18, <1>19, <1>20, <1>21, <1>22, <1>23 DEF Step

(* An id is added before the reply, and none is taken out. *)
LEMMA IdsStep ==
    ASSUME ShapeInv, CallerInv, QueueInv, OpenInv, IdsInv, Step
    PROVE  IdsInv'
<1>p0. to \in [Requests -> Namespaces]
  BY DEF ShapeInv
<1> USE StillFixed, <1>p0 DEF IdsInv
<1>1. ASSUME NEW r \in Requests, CallsIn(r) PROVE IdsInv'
  <2>1. /\ UNCHANGED fixed /\ Only(r) /\ req[r].srv = "none" /\ req'[r].srv = "queued"
        /\ req'[r].resource = req[r].resource
    BY <1>1 DEF CallsIn, CallerInv
  <2>2. SameIds
    BY <1>1, CallsInFrame
  <2>3. QED  BY <2>1, <2>2 DEF Only, SameIds
<1>2. ASSUME NEW r \in Requests, CallFails(r) PROVE IdsInv'
  BY <1>2 DEF CallFails, Only, SameWork
<1>3. ASSUME NEW r \in Requests, GivesUp(r) PROVE IdsInv'
  BY <1>3 DEF GivesUp, Only, SameWork
<1>4. ASSUME NEW r \in Requests, Leaves(r) PROVE IdsInv'
  BY <1>4 DEF Leaves, Only, SameWork
<1>5. ASSUME NEW r \in Requests, Begins(r) PROVE IdsInv'
  BY <1>5 DEF Begins, Only, OnlyNs, SameStage
<1>6. ASSUME NEW r \in Requests, Answers(r) PROVE IdsInv'
  <2>1. SameIds
    BY <1>6, AnswersFrame
  <2>2. /\ UNCHANGED fixed /\ Only(r) /\ req[r].srv = "invoke" /\ req'[r].srv = "done"
        /\ req'[r].resource = req[r].resource /\ req[r].resource = "none"
    BY <1>6 DEF Answers, Returns, OpenInv
  <2>3. QED  BY <2>1, <2>2 DEF Only, SameIds
<1>7. ASSUME NEW r \in Requests, Opens(r) PROVE IdsInv'
  BY <1>7 DEF Opens, Only
<1>8. ASSUME NEW r \in Requests, StreamDone(r) PROVE IdsInv'
  BY <1>8 DEF StreamDone, Only, LetsGo, OnlyNs, SameStage
<1>9. ASSUME NEW r \in Requests, Tracks(r) PROVE IdsInv'
  BY <1>9 DEF Tracks, Only, OnlyNs
<1>10. ASSUME NEW r \in Requests, Replies(r) PROVE IdsInv'
  BY <1>10 DEF Replies, Only, LetsGo, Sends, OnlyNs, SameStage
<1>11. ASSUME NEW r \in Requests, Emits(r) PROVE IdsInv'
  BY <1>11 DEF Emits, Only, SameWork
<1>12. ASSUME NEW r \in Requests, Cancelled(r) PROVE IdsInv'
  BY <1>12 DEF Cancelled, CleansUp, Only
<1>13. ASSUME NEW r \in Requests, CancelEnds(r) PROVE IdsInv'
  BY <1>13 DEF CancelEnds, Only
<1>14. ASSUME NEW r \in Requests, SweepsOne(r) PROVE IdsInv'
  BY <1>14 DEF SweepsOne, CleansOut, CleansUp, Only
<1>15. ASSUME NEW r \in Requests, NEW o \in {"ok", "error"}, Hears(r, o) PROVE IdsInv'
  BY <1>15 DEF Hears, Only, SameWork
<1>16. ASSUME NEW r \in Requests, NEW n \in Namespaces, Takes(n, r) PROVE IdsInv'
  <2>1. req[r].srv = "queued" /\ SameIds
    BY <1>16, TakesFrame
  <2>2. /\ UNCHANGED fixed /\ Only(r) /\ req'[r].srv \in {"task", "invoke"}
        /\ req'[r].resource = req[r].resource
    BY <1>16 DEF Takes
  <2>3. QED  BY <2>1, <2>2 DEF Only, SameIds
<1>17. ASSUME NEW r \in Requests, NEW n \in Namespaces, Removes(n, r) PROVE IdsInv'
  BY <1>17 DEF Removes, CleansOut, CleansUp, Only
<1>18. ASSUME NEW n \in Namespaces, RemovesAll(n) PROVE IdsInv'
  BY <1>18 DEF RemovesAll, Stage, OnlyNs
<1>19. ASSUME NEW n \in Namespaces, Stops(n) PROVE IdsInv'
  BY <1>19 DEF Stops, Stage, OnlyNs
<1>20. ASSUME NEW n \in Namespaces, RemovesTask(n) PROVE IdsInv'
  BY <1>20 DEF RemovesTask, OnlyNs, CutsOff, EndsTask, Cut
<1>21. ASSUME NEW n \in Namespaces, StopEnds(n) PROVE IdsInv'
  BY <1>21 DEF StopEnds, SameWork, OnlyNs, Stage, CutsOff, EndsTask, Cut
<1>22. CASE Disconnects
  BY <1>22 DEF Disconnects
<1>23. CASE DisconnectEnds
  BY <1>23 DEF DisconnectEnds, CutsOff, EndsTask, Cut
<1> HIDE DEF IdsInv
<1>24. QED
  BY <1>1, <1>2, <1>3, <1>4, <1>5, <1>6, <1>7, <1>8, <1>9, <1>10, <1>11, <1>12, <1>13, <1>14,
     <1>15, <1>16, <1>17, <1>18, <1>19, <1>20, <1>21, <1>22, <1>23 DEF Step

(* Whoever was told, and every cleanup, has an id behind it. *)
LEMMA TrackedStep ==
    ASSUME ShapeInv, CallerInv, QueueInv, OpenInv, IdsInv, TrackedInv, Step
    PROVE  TrackedInv'
<1>p0. to \in [Requests -> Namespaces]
  BY DEF ShapeInv
<1> USE StillFixed, <1>p0 DEF TrackedInv
<1>1. ASSUME NEW r \in Requests, CallsIn(r) PROVE TrackedInv'
  <2>1. SameIds
    BY <1>1, CallsInFrame
  <2>2. UNCHANGED fixed /\ \A m \in Namespaces : ns[m].ids \subseteq ns'[m].ids
    BY <1>1, <2>1 DEF CallsIn, SameIds
  <2>3. \A q \in Requests : Founded(q)
    BY <1>1 DEF CallsIn, Only, SameClean, Founded
  <2> HIDE DEF TrackedInv
  <2>4. QED  BY <2>2, <2>3, StillTracked
<1>2. ASSUME NEW r \in Requests, CallFails(r) PROVE TrackedInv'
  BY <1>2 DEF CallFails, Only, SameWork, SameClean
<1>3. ASSUME NEW r \in Requests, GivesUp(r) PROVE TrackedInv'
  BY <1>3 DEF GivesUp, Only, SameWork, SameClean
<1>4. ASSUME NEW r \in Requests, Leaves(r) PROVE TrackedInv'
  BY <1>4 DEF Leaves, Only, SameWork, SameClean
<1>5. ASSUME NEW r \in Requests, Begins(r) PROVE TrackedInv'
  <2>1. SameIds
    BY <1>5, BeginsFrame
  <2>2. UNCHANGED fixed /\ \A m \in Namespaces : ns[m].ids \subseteq ns'[m].ids
    BY <1>5, <2>1 DEF Begins, SameIds
  <2>3. \A q \in Requests : Founded(q)
    BY <1>5 DEF Begins, Only, SameCaller, SameClean, Founded
  <2> HIDE DEF TrackedInv
  <2>4. QED  BY <2>2, <2>3, StillTracked
<1>6. ASSUME NEW r \in Requests, Answers(r) PROVE TrackedInv'
  <2>1. SameIds
    BY <1>6, AnswersFrame
  <2>2. UNCHANGED fixed /\ \A m \in Namespaces : ns[m].ids \subseteq ns'[m].ids
    BY <1>6, <2>1 DEF Answers, Returns, SameIds
  <2>3. host = "client" /\ Route(call[r]) = "callback" => (<<r, "ok">> \in replies' => <<r, "ok">> \in replies)
    BY <1>6 DEF Answers, Sends
  <2>4. \A q \in Requests : q /= r => (<<q, "ok">> \in replies' => <<q, "ok">> \in replies)
    BY <1>6 DEF Answers, Sends
  <2>5. \A q \in Requests : Founded(q)
    BY <1>6, <2>3, <2>4 DEF Answers, Returns, Only, SameCaller, SameClean, Founded
  <2> HIDE DEF TrackedInv
  <2>6. QED  BY <2>2, <2>5, StillTracked
<1>7. ASSUME NEW r \in Requests, Opens(r) PROVE TrackedInv'
  BY <1>7 DEF Opens, Only, SameCaller, SameClean
<1>8. ASSUME NEW r \in Requests, StreamDone(r) PROVE TrackedInv'
  <2>1. SameIds
    BY <1>8, AnswersFrame
  <2>2. UNCHANGED fixed /\ \A m \in Namespaces : ns[m].ids \subseteq ns'[m].ids
    BY <1>8, <2>1 DEF StreamDone, SameIds
  <2>3. Route(call[r]) /= "callback"
    BY <1>8, Kinds DEF StreamDone, OpenInv
  <2>4. \A q \in Requests : Founded(q)
    BY <1>8, <2>3 DEF StreamDone, Only, SameClean, Founded
  <2> HIDE DEF TrackedInv
  <2>5. QED  BY <2>2, <2>4, StillTracked
<1>9. ASSUME NEW r \in Requests, Tracks(r) PROVE TrackedInv'
  <2>1. \A m \in Namespaces, q \in Requests : q \in ns'[m].ids <=> q \in ns[m].ids \/ (q = r /\ m = to[r])
    BY <1>9, TracksFrame
  <2>2. \A m \in Namespaces : ns[m].ids \subseteq Requests
    BY DEF ShapeInv, Tables
  <2>3. UNCHANGED fixed /\ \A m \in Namespaces : ns[m].ids \subseteq ns'[m].ids
    BY <1>9, <2>1, <2>2 DEF Tracks
  <2>4. r \in ns'[to[r]].ids
    BY <2>1, <1>p0
  <2>5. \A q \in Requests : Founded(q)
    BY <1>9, <2>4 DEF Tracks, Only, Founded
  <2> HIDE DEF TrackedInv
  <2>6. QED  BY <2>3, <2>5, StillTracked
<1>10. ASSUME NEW r \in Requests, Replies(r) PROVE TrackedInv'
  <2>1. SameIds
    BY <1>10, AnswersFrame
  <2>2. UNCHANGED fixed /\ \A m \in Namespaces : ns[m].ids \subseteq ns'[m].ids
    BY <1>10, <2>1 DEF Replies, SameIds
  <2>3. \A q \in Requests : q /= r => (<<q, "ok">> \in replies' => <<q, "ok">> \in replies)
    BY <1>10 DEF Replies, Sends
  <2>4. r \in ns'[to[r]].ids
    BY <1>10, <2>1, <1>p0 DEF Replies, IdsInv, SameIds
  <2>5. \A q \in Requests : Founded(q)
    BY <1>10, <2>3, <2>4 DEF Replies, Only, SameCaller, SameClean, Founded
  <2> HIDE DEF TrackedInv
  <2>6. QED  BY <2>2, <2>5, StillTracked
<1>11. ASSUME NEW r \in Requests, Emits(r) PROVE TrackedInv'
  BY <1>11 DEF Emits, Only, SameCaller, SameWork, SameClean
<1>12. ASSUME NEW r \in Requests, Cancelled(r) PROVE TrackedInv'
  BY <1>12 DEF Cancelled, CleansUp, Only, SameCaller
<1>13. ASSUME NEW r \in Requests, CancelEnds(r) PROVE TrackedInv'
  BY <1>13 DEF CancelEnds, Only, SameCaller
<1>14. ASSUME NEW r \in Requests, SweepsOne(r) PROVE TrackedInv'
  BY <1>14 DEF SweepsOne, CleansOut, CleansUp, Only, SameCaller
<1>15. ASSUME NEW r \in Requests, NEW o \in {"ok", "error"}, Hears(r, o) PROVE TrackedInv'
  BY <1>15 DEF Hears, Only, SameWork, SameClean
<1>16. ASSUME NEW r \in Requests, NEW n \in Namespaces, Takes(n, r) PROVE TrackedInv'
  <2>1. SameIds
    BY <1>16, TakesFrame
  <2>2. UNCHANGED fixed /\ \A m \in Namespaces : ns[m].ids \subseteq ns'[m].ids
    BY <1>16, <2>1 DEF Takes, SameIds
  <2>3. \A q \in Requests : Founded(q)
    BY <1>16 DEF Takes, Only, SameCaller, SameClean, Founded
  <2> HIDE DEF TrackedInv
  <2>4. QED  BY <2>2, <2>3, StillTracked
<1>17. ASSUME NEW r \in Requests, NEW n \in Namespaces, Removes(n, r) PROVE TrackedInv'
  BY <1>17 DEF Removes, CleansOut, CleansUp, Only, SameCaller
<1>18. ASSUME NEW n \in Namespaces, RemovesAll(n) PROVE TrackedInv'
  BY <1>18 DEF RemovesAll, Stage, OnlyNs
<1>19. ASSUME NEW n \in Namespaces, Stops(n) PROVE TrackedInv'
  <2>1. UNCHANGED fixed /\ SameIds
    BY <1>19 DEF Stops, Stage, OnlyNs, SameIds
  <2>2. \A q \in ns[n].ids : q \in ns'[to[q]].ids
    BY <1>19, <2>1, <1>p0 DEF IdsInv, SameIds, ShapeInv, Tables
  <2>3. \A q \in Requests : Founded(q)
    BY <1>19, <2>2 DEF Stops, Founded
  <2> HIDE DEF TrackedInv
  <2>4. QED  BY <2>1, <2>3, StillTracked DEF SameIds
<1>20. ASSUME NEW n \in Namespaces, RemovesTask(n) PROVE TrackedInv'
  <2>1. SameIds
    BY <1>20, RemovesTaskFrame
  <2>2. UNCHANGED fixed /\ \A m \in Namespaces : ns[m].ids \subseteq ns'[m].ids
    BY <1>20, <2>1 DEF RemovesTask, SameIds
  <2>3. \A q \in Requests : Founded(q)
    BY <1>20 DEF RemovesTask, CutsOff, SameCaller, SameClean, Founded
  <2> HIDE DEF TrackedInv
  <2>4. QED  BY <2>2, <2>3, StillTracked
<1>21. ASSUME NEW n \in Namespaces, StopEnds(n) PROVE TrackedInv'
  <2>1. SameIds
    BY <1>21, StopEndsFrame
  <2>2. UNCHANGED fixed /\ \A m \in Namespaces : ns[m].ids \subseteq ns'[m].ids
    BY <1>21, <2>1 DEF StopEnds, SameIds
  <2>3. \A q \in Requests : SameCaller(q)
    BY <1>21 DEF StopEnds, CutsOff
  <2>4. \A q \in Requests : Founded(q)
    BY <1>21, <2>3 DEF StopEnds, SameCaller, Founded
  <2> HIDE DEF TrackedInv
  <2>5. QED  BY <2>2, <2>4, StillTracked
<1>22. CASE Disconnects
  BY <1>22 DEF Disconnects
<1>23. CASE DisconnectEnds
  <2>1. SameIds
    BY <1>23, DisconnectEndsFrame
  <2>2. UNCHANGED fixed /\ \A m \in Namespaces : ns[m].ids \subseteq ns'[m].ids
    BY <1>23, <2>1 DEF DisconnectEnds, SameIds
  <2>3. \A q \in Requests : Founded(q)
    BY <1>23 DEF DisconnectEnds, CutsOff, SameCaller, Founded
  <2> HIDE DEF TrackedInv
  <2>4. QED  BY <2>2, <2>3, StillTracked
<1> HIDE DEF TrackedInv
<1>24. QED
  BY <1>1, <1>2, <1>3, <1>4, <1>5, <1>6, <1>7, <1>8, <1>9, <1>10, <1>11, <1>12, <1>13, <1>14,
     <1>15, <1>16, <1>17, <1>18, <1>19, <1>20, <1>21, <1>22, <1>23 DEF Step

(* An entry goes with its cleanup. *)
LEMMA CleanStep ==
    ASSUME ShapeInv, QueueInv, OpenInv, IdsInv, TrackedInv, CleanInv, RemoveInv, Step
    PROVE  CleanInv'
<1>p0. to \in [Requests -> Namespaces]
  BY DEF ShapeInv
<1> USE StillFixed, <1>p0 DEF CleanInv
<1>1. ASSUME NEW r \in Requests, CallsIn(r) PROVE CleanInv'
  BY <1>1 DEF CallsIn, Only, SameClean, OnlyNs, SameStage
<1>2. ASSUME NEW r \in Requests, CallFails(r) PROVE CleanInv'
  BY <1>2 DEF CallFails, Only, SameWork, SameClean
<1>3. ASSUME NEW r \in Requests, GivesUp(r) PROVE CleanInv'
  BY <1>3 DEF GivesUp, Only, SameWork, SameClean
<1>4. ASSUME NEW r \in Requests, Leaves(r) PROVE CleanInv'
  BY <1>4 DEF Leaves, Only, SameWork, SameClean
<1>5. ASSUME NEW r \in Requests, Begins(r) PROVE CleanInv'
  BY <1>5 DEF Begins, Only, SameClean, OnlyNs, SameStage
<1>6. ASSUME NEW r \in Requests, Answers(r) PROVE CleanInv'
  BY <1>6 DEF Answers, Sends, Returns, Only, SameClean, LetsGo, OnlyNs, SameStage
<1>7. ASSUME NEW r \in Requests, Opens(r) PROVE CleanInv'
  BY <1>7 DEF Opens, Only, SameClean
<1>8. ASSUME NEW r \in Requests, StreamDone(r) PROVE CleanInv'
  BY <1>8 DEF StreamDone, Only, SameClean, LetsGo, OnlyNs, SameStage
<1>9. ASSUME NEW r \in Requests, Tracks(r) PROVE CleanInv'
  BY <1>9 DEF Tracks, Only, OnlyNs
<1>10. ASSUME NEW r \in Requests, Replies(r) PROVE CleanInv'
  BY <1>10 DEF Replies, Only, SameClean, LetsGo, Sends, OnlyNs, SameStage
<1>11. ASSUME NEW r \in Requests, Emits(r) PROVE CleanInv'
  BY <1>11 DEF Emits, Only, SameWork, SameClean
<1>12. ASSUME NEW r \in Requests, Cancelled(r) PROVE CleanInv'
  BY <1>12 DEF Cancelled, CleansUp, Only
<1>13. ASSUME NEW r \in Requests, CancelEnds(r) PROVE CleanInv'
  BY <1>13 DEF CancelEnds, Only, OpenInv
<1>14. ASSUME NEW r \in Requests, SweepsOne(r) PROVE CleanInv'
  BY <1>14 DEF SweepsOne, CleansOut, CleansUp, Only
<1>15. ASSUME NEW r \in Requests, NEW o \in {"ok", "error"}, Hears(r, o) PROVE CleanInv'
  BY <1>15 DEF Hears, Only, SameWork, SameClean
<1>16. ASSUME NEW r \in Requests, NEW n \in Namespaces, Takes(n, r) PROVE CleanInv'
  BY <1>16 DEF Takes, Only, SameClean, OnlyNs, SameStage
<1>17. ASSUME NEW r \in Requests, NEW n \in Namespaces, Removes(n, r) PROVE CleanInv'
  BY <1>17 DEF Removes, CleansOut, CleansUp, Only
<1>18. ASSUME NEW n \in Namespaces, RemovesAll(n) PROVE CleanInv'
  BY <1>18 DEF RemovesAll, Stage, OnlyNs
<1>19. ASSUME NEW n \in Namespaces, Stops(n) PROVE CleanInv'
  BY <1>19 DEF Stops, Stage, OnlyNs, IdsInv, RemoveInv
<1>20. ASSUME NEW n \in Namespaces, RemovesTask(n) PROVE CleanInv'
  BY <1>20 DEF RemovesTask, SameClean, OnlyNs, CutsOff, EndsTask, Cut
<1>21. ASSUME NEW n \in Namespaces, StopEnds(n) PROVE CleanInv'
  <2>1. host = "service"
    BY <1>21 DEF StopEnds, RemoveInv
  <2>2. \A q \in Requests : req'[q].cleaned = req[q].cleaned /\ req'[q].cleanups = req[q].cleanups
    BY <1>21 DEF StopEnds, CutsOff
  <2>3. /\ UNCHANGED <<fixed, swept, closing>> /\ ns'[n].stage = "removed"
        /\ \A m \in Namespaces : m /= n => ns'[m] = ns[m]
    BY <1>21, StopEndsFrame DEF StopEnds
  <2>4. QED  BY <2>1, <2>2, <2>3
<1>22. CASE Disconnects
  BY <1>22 DEF Disconnects
<1>23. CASE DisconnectEnds
  BY <1>23 DEF DisconnectEnds, CutsOff, EndsTask, Cut
<1> HIDE DEF CleanInv
<1>24. QED
  BY <1>1, <1>2, <1>3, <1>4, <1>5, <1>6, <1>7, <1>8, <1>9, <1>10, <1>11, <1>12, <1>13, <1>14,
     <1>15, <1>16, <1>17, <1>18, <1>19, <1>20, <1>21, <1>22, <1>23 DEF Step

(* Nothing is registered in a namespace that is being removed. *)
LEMMA RemoveStep ==
    ASSUME ShapeInv, QueueInv, OpenInv, IdsInv, TrackedInv, CleanInv, RemoveInv, Step
    PROVE  RemoveInv'
<1>p0. to \in [Requests -> Namespaces]
  BY DEF ShapeInv
<1> USE StillFixed, <1>p0 DEF RemoveInv
<1>1. ASSUME NEW r \in Requests, CallsIn(r) PROVE RemoveInv'
  BY <1>1 DEF CallsIn, Only, SameClean, OnlyNs, SameStage
<1>2. ASSUME NEW r \in Requests, CallFails(r) PROVE RemoveInv'
  BY <1>2 DEF CallFails, Only, SameWork, SameClean
<1>3. ASSUME NEW r \in Requests, GivesUp(r) PROVE RemoveInv'
  BY <1>3 DEF GivesUp, Only, SameWork, SameClean
<1>4. ASSUME NEW r \in Requests, Leaves(r) PROVE RemoveInv'
  BY <1>4 DEF Leaves, Only, SameWork, SameClean
<1>5. ASSUME NEW r \in Requests, Begins(r) PROVE RemoveInv'
  <2>1. SameIds /\ SameStages
    BY <1>5, BeginsFrame
  <2>2. /\ UNCHANGED <<fixed, closing, swept>> /\ Only(r) /\ SameClean(r)
        /\ req'[r].srv = "invoke" /\ AsTask(r)
    BY <1>5 DEF Begins, QueueInv
  <2>3. QED  BY <2>1, <2>2 DEF Only, SameClean, Working, SameIds, SameStages
<1>6. ASSUME NEW r \in Requests, Answers(r) PROVE RemoveInv'
  <2>1. SameIds /\ SameStages
    BY <1>6, AnswersFrame
  <2>2. /\ UNCHANGED <<fixed, closing, swept>> /\ Only(r) /\ SameClean(r)
        /\ req'[r].srv = "done"
    BY <1>6 DEF Answers, Returns, StreamDone, Replies
  <2>3. QED  BY <2>1, <2>2 DEF Only, SameClean, Working, SameIds, SameStages
<1>7. ASSUME NEW r \in Requests, Opens(r) PROVE RemoveInv'
  BY <1>7 DEF Opens, Only, SameClean, Working
<1>8. ASSUME NEW r \in Requests, StreamDone(r) PROVE RemoveInv'
  <2>1. SameIds /\ SameStages
    BY <1>8, AnswersFrame
  <2>2. /\ UNCHANGED <<fixed, closing, swept>> /\ Only(r) /\ SameClean(r)
        /\ req'[r].srv = "done"
    BY <1>8 DEF Answers, Returns, StreamDone, Replies
  <2>3. QED  BY <2>1, <2>2 DEF Only, SameClean, Working, SameIds, SameStages
<1>9. ASSUME NEW r \in Requests, Tracks(r) PROVE RemoveInv'
  <2>1. /\ SameStages
        /\ \A m \in Namespaces, q \in Requests : q \in ns'[m].ids <=> q \in ns[m].ids \/ (q = r /\ m = to[r])
    BY <1>9, TracksFrame
  <2>2. UNCHANGED <<fixed, closing, swept>> /\ Only(r) /\ req[r].srv = "subscribe"
    BY <1>9 DEF Tracks
  <2>3. host = "client" => ~AsTask(r)
    BY <2>2, TasksOfClients DEF OpenInv
  <2>4. host = "client" => ns[to[r]].stage \notin {"removing", "removed"}
    BY <2>2, <2>3 DEF Working
  <2>5. QED  BY <2>1, <2>2, <2>4 DEF Only, SameStages
<1>10. ASSUME NEW r \in Requests, Replies(r) PROVE RemoveInv'
  <2>1. SameIds /\ SameStages
    BY <1>10, AnswersFrame
  <2>2. /\ UNCHANGED <<fixed, closing, swept>> /\ Only(r) /\ SameClean(r)
        /\ req'[r].srv = "done"
    BY <1>10 DEF Answers, Returns, StreamDone, Replies
  <2>3. QED  BY <2>1, <2>2 DEF Only, SameClean, Working, SameIds, SameStages
<1>11. ASSUME NEW r \in Requests, Emits(r) PROVE RemoveInv'
  BY <1>11 DEF Emits, Only, SameWork, SameClean
<1>12. ASSUME NEW r \in Requests, Cancelled(r) PROVE RemoveInv'
  BY <1>12 DEF Cancelled, CleansUp, Only
<1>13. ASSUME NEW r \in Requests, CancelEnds(r) PROVE RemoveInv'
  BY <1>13 DEF CancelEnds, Only
<1>14. ASSUME NEW r \in Requests, SweepsOne(r) PROVE RemoveInv'
  BY <1>14 DEF SweepsOne, CleansOut, CleansUp, Only
<1>15. ASSUME NEW r \in Requests, NEW o \in {"ok", "error"}, Hears(r, o) PROVE RemoveInv'
  BY <1>15 DEF Hears, Only, SameWork, SameClean
<1>16. ASSUME NEW r \in Requests, NEW n \in Namespaces, Takes(n, r) PROVE RemoveInv'
  <2>1. SameIds /\ SameStages /\ req[r].srv = "queued"
    BY <1>16, TakesFrame
  <2>2. /\ UNCHANGED <<fixed, closing, swept>> /\ Only(r) /\ SameClean(r)
        /\ req'[r].srv \in {"task", "invoke"}
    BY <1>16 DEF Takes
  <2>3. QED  BY <2>1, <2>2 DEF Only, SameClean, Working, SameIds, SameStages
<1>17. ASSUME NEW r \in Requests, NEW n \in Namespaces, Removes(n, r) PROVE RemoveInv'
  BY <1>17 DEF Removes, CleansOut, CleansUp, Only
<1>18. ASSUME NEW n \in Namespaces, RemovesAll(n) PROVE RemoveInv'
  BY <1>18 DEF RemovesAll, Stage, OnlyNs, SameQueue
<1>19. ASSUME NEW n \in Namespaces, Stops(n) PROVE RemoveInv'
  BY <1>19 DEF Stops, Stage, OnlyNs, SameQueue
<1>20. ASSUME NEW n \in Namespaces, RemovesTask(n) PROVE RemoveInv'
  <2>1. /\ SameIds /\ ns'[n].stage = "removing" /\ \A m \in Namespaces : m /= n => ns'[m] = ns[m]
    BY <1>20, RemovesTaskFrame
  <2>2. UNCHANGED <<fixed, closing, swept>> /\ closing = "no" /\ \A q \in Requests : SameClean(q)
    BY <1>20 DEF RemovesTask
  <2>3. \A q \in Requests : Spares(n, q)
    BY <1>20, CutsWork DEF RemovesTask
  <2>4. \A q \in Requests : to[q] = n => req'[q].srv /= "queued" /\ (req'[q].srv \in Working => AsTask(q))
    BY <2>3 DEF Spares, Cut, QueueInv, Working
  <2>5. \A q \in Requests : to[q] = n /\ q \in ns[n].ids => req[q].entry \/ req[q].cleaned
    BY <1>20, <2>2 DEF RemovesTask, CleanInv
  <2>6. \A q \in Requests : to[q] /= n => req'[q].srv = req[q].srv
    BY <2>3 DEF Spares
  <2>7. QED  BY <1>20, <2>1, <2>2, <2>4, <2>5, <2>6 DEF RemovesTask, SameClean, SameIds
<1>21. ASSUME NEW n \in Namespaces, StopEnds(n) PROVE RemoveInv'
  <2>1. host = "service"
    BY <1>21 DEF StopEnds
  <2>2. QED  BY <1>21, <2>1 DEF StopEnds
<1>22. CASE Disconnects
  BY <1>22 DEF Disconnects
<1>23. CASE DisconnectEnds
  <2>1. SameIds /\ SameStages
    BY <1>23, DisconnectEndsFrame
  <2>2. \A q \in Requests : Interrupts(q)
    BY <1>23, CutsWork, <1>p0 DEF DisconnectEnds
  <2>3. /\ UNCHANGED <<fixed, swept>> /\ closing = "sweep" /\ closing' = "closed" /\ swept = {}
        /\ \A q \in Requests : req'[q].cleaned = req[q].cleaned
    BY <1>23 DEF DisconnectEnds, CutsOff
  <2>4. QED  BY <2>1, <2>2, <2>3 DEF SameIds, SameStages, Interrupts, Working
<1> HIDE DEF RemoveInv
<1>24. QED
  BY <1>1, <1>2, <1>3, <1>4, <1>5, <1>6, <1>7, <1>8, <1>9, <1>10, <1>11, <1>12, <1>13, <1>14,
     <1>15, <1>16, <1>17, <1>18, <1>19, <1>20, <1>21, <1>22, <1>23 DEF Step

(* Nobody else ends a session. *)
LEMMA OthersStep ==
    ASSUME ShapeInv, CallerInv, ListenInv, IdsInv, TrackedInv, CleanInv, OthersLive, Step
    PROVE  OthersLive'
<1>p0. to \in [Requests -> Namespaces]
  BY DEF ShapeInv
<1> USE StillFixed, <1>p0 DEF OthersLive
<1>1. ASSUME NEW r \in Requests, CallsIn(r) PROVE OthersLive'
  BY <1>1 DEF CallsIn, Only, SameClean, SameValues, OnlyNs, SameStage
<1>2. ASSUME NEW r \in Requests, CallFails(r) PROVE OthersLive'
  BY <1>2 DEF CallFails, Only, SameWork, SameClean, SameValues
<1>3. ASSUME NEW r \in Requests, GivesUp(r) PROVE OthersLive'
  BY <1>3 DEF GivesUp, Only, SameWork, SameClean, SameValues
<1>4. ASSUME NEW r \in Requests, Leaves(r) PROVE OthersLive'
  BY <1>4 DEF Leaves, Only, SameWork, SameClean, SameValues
<1>5. ASSUME NEW r \in Requests, Begins(r) PROVE OthersLive'
  BY <1>5 DEF Begins, Only, SameCaller, SameClean, SameValues, OnlyNs, SameStage, SameQueue
<1>6. ASSUME NEW r \in Requests, Answers(r) PROVE OthersLive'
  BY <1>6
     DEF Answers, Sends, Returns, Only, SameCaller, SameClean, SameValues, LetsGo, OnlyNs, SameStage,
         SameQueue, Freed
<1>7. ASSUME NEW r \in Requests, Opens(r) PROVE OthersLive'
  BY <1>7 DEF Opens, Only, SameCaller, SameClean, SameValues
<1>8. ASSUME NEW r \in Requests, StreamDone(r) PROVE OthersLive'
  BY <1>8 DEF StreamDone, Only, SameClean, SameValues, LetsGo, OnlyNs, SameStage, SameQueue, Freed
<1>9. ASSUME NEW r \in Requests, Tracks(r) PROVE OthersLive'
  BY <1>9 DEF Tracks, Only, SameCaller, SameValues, OnlyNs, SameQueue
<1>10. ASSUME NEW r \in Requests, Replies(r) PROVE OthersLive'
  BY <1>10
     DEF Replies, Only, SameCaller, SameClean, SameValues, LetsGo, Sends, OnlyNs, SameStage, SameQueue,
         Freed
<1>11. ASSUME NEW r \in Requests, Emits(r) PROVE OthersLive'
  BY <1>11 DEF Emits, Only, SameCaller, SameWork, SameClean, SameValues
<1>12. ASSUME NEW r \in Requests, Cancelled(r) PROVE OthersLive'
  BY <1>12 DEF Cancelled, CleansUp, Only, SameCaller, SameValues, ListenInv
<1>13. ASSUME NEW r \in Requests, CancelEnds(r) PROVE OthersLive'
  BY <1>13 DEF CancelEnds, Only, SameCaller, SameValues
<1>14. ASSUME NEW r \in Requests, SweepsOne(r) PROVE OthersLive'
  BY <1>14 DEF SweepsOne, CleansOut, CleansUp, Only, SameCaller, SameValues, CleanInv
<1>15. ASSUME NEW r \in Requests, NEW o \in {"ok", "error"}, Hears(r, o) PROVE OthersLive'
  BY <1>15 DEF Hears, Only, SameWork, SameClean, SameValues, CallerInv
<1>16. ASSUME NEW r \in Requests, NEW n \in Namespaces, Takes(n, r) PROVE OthersLive'
  BY <1>16 DEF Takes, Only, SameCaller, SameClean, SameValues, OnlyNs, SameStage
<1>17. ASSUME NEW r \in Requests, NEW n \in Namespaces, Removes(n, r) PROVE OthersLive'
  BY <1>17 DEF Removes, CleansOut, CleansUp, Only, SameCaller, SameValues, IdsInv
<1>18. ASSUME NEW n \in Namespaces, RemovesAll(n) PROVE OthersLive'
  BY <1>18 DEF RemovesAll, Stage, OnlyNs, SameQueue
<1>19. ASSUME NEW n \in Namespaces, Stops(n) PROVE OthersLive'
  BY <1>19 DEF Stops, Stage, OnlyNs, SameQueue
<1>20. ASSUME NEW n \in Namespaces, RemovesTask(n) PROVE OthersLive'
  BY <1>20 DEF RemovesTask, SameClean, OnlyNs, CutsOff, EndsTask, SameCaller, SameValues, Cut
<1>21. ASSUME NEW n \in Namespaces, StopEnds(n) PROVE OthersLive'
  BY <1>21
     DEF StopEnds, SameCaller, SameWork, SameValues, OnlyNs, Stage, CutsOff, EndsTask, SameQueue, Cut
<1>22. CASE Disconnects
  BY <1>22 DEF Disconnects
<1>23. CASE DisconnectEnds
  BY <1>23 DEF DisconnectEnds, CutsOff, EndsTask, SameCaller, SameValues, Cut
<1> HIDE DEF OthersLive
<1>24. QED
  BY <1>1, <1>2, <1>3, <1>4, <1>5, <1>6, <1>7, <1>8, <1>9, <1>10, <1>11, <1>12, <1>13, <1>14,
     <1>15, <1>16, <1>17, <1>18, <1>19, <1>20, <1>21, <1>22, <1>23 DEF Step

(* Values are emitted to a caller that listens. *)
LEMMA MissedStep ==
    ASSUME ShapeInv, ListenInv, OpenInv, NoValueMissed, Step
    PROVE  NoValueMissed'
<1>p0. to \in [Requests -> Namespaces]
  BY DEF ShapeInv
<1> USE StillFixed, <1>p0 DEF NoValueMissed
<1>1. ASSUME NEW r \in Requests, CallsIn(r) PROVE NoValueMissed'
  BY <1>1 DEF CallsIn, Only, SameValues
<1>2. ASSUME NEW r \in Requests, CallFails(r) PROVE NoValueMissed'
  BY <1>2 DEF CallFails, Only, SameValues
<1>3. ASSUME NEW r \in Requests, GivesUp(r) PROVE NoValueMissed'
  BY <1>3 DEF GivesUp, Only, SameValues
<1>4. ASSUME NEW r \in Requests, Leaves(r) PROVE NoValueMissed'
  BY <1>4 DEF Leaves, Only, SameValues
<1>5. ASSUME NEW r \in Requests, Begins(r) PROVE NoValueMissed'
  BY <1>5 DEF Begins, Only, SameCaller, SameValues
<1>6. ASSUME NEW r \in Requests, Answers(r) PROVE NoValueMissed'
  BY <1>6 DEF Answers, Sends, Returns, Only, SameCaller, SameValues
<1>7. ASSUME NEW r \in Requests, Opens(r) PROVE NoValueMissed'
  BY <1>7 DEF Opens, Only, SameCaller, SameValues
<1>8. ASSUME NEW r \in Requests, StreamDone(r) PROVE NoValueMissed'
  BY <1>8 DEF StreamDone, Only, SameValues
<1>9. ASSUME NEW r \in Requests, Tracks(r) PROVE NoValueMissed'
  BY <1>9 DEF Tracks, Only, SameCaller, SameValues
<1>10. ASSUME NEW r \in Requests, Replies(r) PROVE NoValueMissed'
  BY <1>10 DEF Replies, Only, SameCaller, SameValues, Sends
<1>11. ASSUME NEW r \in Requests, Emits(r) PROVE NoValueMissed'
  <2>1. req[r].listening /\ call[r].handler \in {"callback", "synccallback"}
    BY <1>11, Kinds DEF Emits, ListenInv, OpenInv
  <2>2. QED  BY <1>11, <2>1 DEF Emits, Only, SameCaller, SameValues
<1>12. ASSUME NEW r \in Requests, Cancelled(r) PROVE NoValueMissed'
  BY <1>12 DEF Cancelled, CleansUp, Only, SameCaller, SameValues
<1>13. ASSUME NEW r \in Requests, CancelEnds(r) PROVE NoValueMissed'
  BY <1>13 DEF CancelEnds, Only, SameCaller, SameValues
<1>14. ASSUME NEW r \in Requests, SweepsOne(r) PROVE NoValueMissed'
  BY <1>14 DEF SweepsOne, CleansOut, CleansUp, Only, SameCaller, SameValues
<1>15. ASSUME NEW r \in Requests, NEW o \in {"ok", "error"}, Hears(r, o) PROVE NoValueMissed'
  BY <1>15 DEF Hears, Only, SameValues
<1>16. ASSUME NEW r \in Requests, NEW n \in Namespaces, Takes(n, r) PROVE NoValueMissed'
  BY <1>16 DEF Takes, Only, SameCaller, SameValues
<1>17. ASSUME NEW r \in Requests, NEW n \in Namespaces, Removes(n, r) PROVE NoValueMissed'
  BY <1>17 DEF Removes, CleansOut, CleansUp, Only, SameCaller, SameValues
<1>18. ASSUME NEW n \in Namespaces, RemovesAll(n) PROVE NoValueMissed'
  BY <1>18 DEF RemovesAll
<1>19. ASSUME NEW n \in Namespaces, Stops(n) PROVE NoValueMissed'
  BY <1>19 DEF Stops
<1>20. ASSUME NEW n \in Namespaces, RemovesTask(n) PROVE NoValueMissed'
  BY <1>20 DEF RemovesTask, CutsOff, SameCaller, SameValues, Cut
<1>21. ASSUME NEW n \in Namespaces, StopEnds(n) PROVE NoValueMissed'
  BY <1>21 DEF StopEnds, SameCaller, SameValues, CutsOff, Cut
<1>22. CASE Disconnects
  BY <1>22 DEF Disconnects
<1>23. CASE DisconnectEnds
  BY <1>23 DEF DisconnectEnds, CutsOff, SameCaller, SameValues, Cut
<1> HIDE DEF NoValueMissed
<1>24. QED
  BY <1>1, <1>2, <1>3, <1>4, <1>5, <1>6, <1>7, <1>8, <1>9, <1>10, <1>11, <1>12, <1>13, <1>14,
     <1>15, <1>16, <1>17, <1>18, <1>19, <1>20, <1>21, <1>22, <1>23 DEF Step

-----------------------------------------------------------------------------
LEMMA InitEnd ==
    ASSUME Init
    PROVE  EndInv
<1>1. PICK s \in Scenarios : to = s.to /\ call = s.call
  BY DEF Init
<1>2. to \in [Requests -> Namespaces] /\ call \in [Requests -> Shapes]
  BY <1>1, EndpointAssumption
<1>3. \A r \in Requests :
        /\ req[r] \in Slots /\ req[r].caller = "new" /\ req[r].srv = "none" /\ req[r].resource = "none"
        /\ req[r].cleaned = FALSE /\ req[r].cleanups = 0 /\ req[r].cancelSub = FALSE /\ req[r].entry = FALSE
        /\ req[r].missed = 0
  BY EndpointAssumption DEF Init, Slots
<1>4. \A n \in Namespaces :
        /\ ns[n] \in Tables /\ ns[n].stage = "up" /\ ns[n].queue = <<>> /\ ns[n].busy = Idle /\ ns[n].ids = {}
  BY DEF Init, Tables
<1>5. /\ host \in {"client", "service"} /\ closing = "no" /\ swept = {} /\ replies = {} /\ cancels = {}
      /\ req \in [Requests -> Slots] /\ ns \in [Namespaces -> Tables]
  BY <1>3, <1>4 DEF Init
<1>6. ShapeInv
  BY <1>2, <1>5 DEF ShapeInv
<1>7. CallerInv /\ ListenInv /\ OpenInv
  BY <1>3, <1>5 DEF CallerInv, ListenInv, OpenInv
<1>8. QueueInv
  BY <1>2, <1>3, <1>4, EmptyQueue, EndpointAssumption DEF QueueInv, Working
<1>9. IdsInv /\ TrackedInv
  BY <1>2, <1>3, <1>4, <1>5 DEF IdsInv, TrackedInv
<1>10. CleanInv /\ RemoveInv
  BY <1>2, <1>3, <1>4, <1>5 DEF CleanInv, RemoveInv
<1>11. OthersLive /\ NoValueMissed
  BY <1>3 DEF OthersLive, NoValueMissed
<1>12. QED  BY <1>6, <1>7, <1>8, <1>9, <1>10, <1>11 DEF EndInv

LEMMA Standstill ==
    ASSUME EndInv, UNCHANGED vars
    PROVE  EndInv'
<1>1. UNCHANGED <<fixed, req, ns, closing, swept, replies, cancels>>
  BY DEF vars
<1> USE <1>1, StillFixed DEF EndInv
<1>2. ShapeInv'       BY DEF ShapeInv
<1>3. CallerInv' /\ ListenInv'  BY DEF CallerInv, ListenInv
<1>4. QueueInv'       BY DEF QueueInv
<1>5. OpenInv'        BY DEF OpenInv
<1>6. IdsInv'         BY DEF IdsInv
<1>7. TrackedInv'     BY DEF TrackedInv
<1>8. CleanInv'       BY DEF CleanInv
<1>9. RemoveInv'      BY DEF RemoveInv
<1>10. OthersLive'    BY DEF OthersLive
<1>11. NoValueMissed' BY DEF NoValueMissed
<1>12. QED  BY <1>2, <1>3, <1>4, <1>5, <1>6, <1>7, <1>8, <1>9, <1>10, <1>11

LEMMA EndStep ==
    ASSUME EndInv, Next
    PROVE  EndInv'
<1> USE DEF EndInv
<1>1. Step
  BY StepEffects
<1>2. ShapeInv' /\ CallerInv' /\ ListenInv' /\ QueueInv'
  BY <1>1, ShapeStep, CallerStep, ListenStep, QueueStep
<1>3. OpenInv' /\ IdsInv' /\ TrackedInv'
  BY <1>1, OpenStep, IdsStep, TrackedStep
<1>4. CleanInv' /\ RemoveInv' /\ OthersLive' /\ NoValueMissed'
  BY <1>1, CleanStep, RemoveStep, OthersStep, MissedStep
<1>5. QED  BY <1>2, <1>3, <1>4

LEMMA EndInvariant ==
    Spec => []EndInv
<1>1. Init => EndInv
  BY InitEnd
<1>2. EndInv /\ [Next]_vars => EndInv'
  BY EndStep, Standstill
<1>3. QED  BY <1>1, <1>2, PTL DEF Spec

-----------------------------------------------------------------------------
(* The stages of requests, calls and sessions are the ones listed; what the
   message task of a namespace holds is being worked on, what is in its queue
   waits. *)
THEOREM EndpointTypes ==
    Spec => []TypeOK
<1>1. ASSUME EndInv
      PROVE  TypeOK
  <2>1. ShapeInv /\ QueueInv
    BY <1>1 DEF EndInv
  <2>2. ASSUME NEW r \in Requests
        PROVE  /\ req[r].caller \in {"new", "waiting", "ok", "error", "timeout", "left"}
               /\ req[r].srv \in {"none", "queued", "task", "invoke", "subscribe", "reply", "streaming", "done", "cut"}
               /\ req[r].resource \in {"none", "open", "cancelled", "closed", "cut"}
               /\ req[r].emitted \in 0..MaxValues
    BY <2>1 DEF ShapeInv, Slots, Working
  <2>3. ASSUME NEW n \in Namespaces
        PROVE  /\ ns[n].busy # Idle => req[ns[n].busy].srv \in {"invoke", "subscribe", "reply", "streaming"}
               /\ \A r \in Range(ns[n].queue) : req[r].srv = "queued"
    <3>1. ns[n].busy \in Requests \cup {Idle} /\ ns[n].queue \in Seq(Requests)
      BY <2>1 DEF ShapeInv, Tables
    <3>2. Range(ns[n].queue) \subseteq Requests
      BY <3>1 DEF Range
    <3>3. QED  BY <2>1, <3>1, <3>2 DEF QueueInv, Working
  <2>4. closing \in {"no", "sweep", "closed"} /\ swept \subseteq Requests
    BY <2>1 DEF ShapeInv
  <2>5. QED  BY <2>2, <2>3, <2>4 DEF TypeOK
<1>2. QED  BY <1>1, EndInvariant, PTL

(* A handler's cleanup is started at most once, with a cancel message, the
   removal of the handlers and disconnect() racing for it; a session ends only
   when its caller leaves, its namespace goes or the client does; and removing a
   client's handlers leaves nothing behind that was registered, however many
   requests, namespaces and sessions there are. *)
THEOREM SessionsEndOnceAlways ==
    Spec => []SessionsEndOnce
<1>1. ASSUME EndInv
      PROVE  SessionsEndOnce
  <2>1. CleanupOnce
    BY <1>1 DEF EndInv, CleanInv, CleanupOnce
  <2>2. OthersLive
    BY <1>1 DEF EndInv
  <2>3. RemovedIsClean
    BY <1>1 DEF EndInv, IdsInv, RemoveInv, RemovedIsClean
  <2>4. QED  BY <2>1, <2>2, <2>3 DEF SessionsEndOnce
<1>2. QED  BY <1>1, EndInvariant, PTL

(* A callback call that succeeds at a client's handler is registered there until
   one side ends it, and a caller that waits or has its answer misses no value of
   an async handler. *)
THEOREM SubscribedAlways ==
    Spec => []Subscribed
<1>1. ASSUME EndInv
      PROVE  Subscribed
  <2>1. OkMeansRegistered
    BY <1>1 DEF EndInv, TrackedInv, CleanInv, OkMeansRegistered
  <2>2. NoValueMissed
    BY <1>1 DEF EndInv
  <2>3. QED  BY <2>1, <2>2 DEF Subscribed
<1>2. QED  BY <1>1, EndInvariant, PTL

-----------------------------------------------------------------------------
(* The order of requests.  What waits in the queue is the end of what arrived;
   everything before it that is not a task has started.  The queue is emptied
   only when nothing arrives any more. *)

Inlines == {r \in Requests : Inline(r)}

Receiving(n) == ns[n].stage \in {"up", "stopping"} /\ closing # "closed"

(* KeepsOrder, for a set of requests. *)
Ordered(I, a, s) ==
    /\ \A i, j \in 1..Len(s) : s[i] \in I /\ s[i] = s[j] => i = j
    /\ \A j \in 1..Len(s) : s[j] \in I =>
        \E k \in 1..Len(a) : /\ a[k] = s[j]
                             /\ \A h \in 1..(k - 1) : a[h] \in I => \E i \in 1..(j - 1) : s[i] = a[h]

Waits(I, q, a, s) ==
    /\ Len(q) <= Len(a)
    /\ \A i \in 1..Len(q) : q[i] = a[Len(a) - Len(q) + i]
    /\ \A h \in 1..(Len(a) - Len(q)) : a[h] \in I => \E i \in 1..Len(s) : s[i] = a[h]

OrderAt(n) ==
    /\ Receiving(n) \/ ns[n].queue # <<>> => Waits(Inlines, ns[n].queue, ns[n].arrived, ns[n].started)
    /\ \A i \in 1..Len(ns[n].started) :
          ns[n].started[i] \in Inlines => req[ns[n].started[i]].srv \notin {"none", "queued"}
    /\ Ordered(Inlines, ns[n].arrived, ns[n].started)

OrderInv == \A n \in Namespaces : OrderAt(n)

(* One more request at the end of a sequence. *)
LEMMA OneMore ==
    ASSUME NEW s \in Seq(Requests), NEW r \in Requests
    PROVE  /\ Append(s, r) \in Seq(Requests)
           /\ \A i \in 1..Len(Append(s, r)) :
                (i \in 1..Len(s) /\ Append(s, r)[i] = s[i]) \/ Append(s, r)[i] = r
<1> DEFINE t == Append(s, r)
<1>1. t \in Seq(Requests) /\ Len(t) = Len(s) + 1 /\ t[Len(s) + 1] = r /\ \A i \in 1..Len(s) : t[i] = s[i]
  OBVIOUS
<1>2. Len(s) \in Nat
  OBVIOUS
<1> HIDE DEF t
<1>3. \A i \in 1..Len(t) : i \in 1..Len(s) \/ i = Len(s) + 1
  BY <1>1, <1>2
<1>4. \A i \in 1..Len(t) : (i \in 1..Len(s) /\ t[i] = s[i]) \/ t[i] = r
  BY <1>1, <1>3
<1>5. QED  BY <1>1, <1>4 DEF t

(* A request that arrives leaves the order of those before it alone. *)
LEMMA OrderedArrival ==
    ASSUME NEW I, NEW a \in Seq(Requests), NEW s \in Seq(Requests), NEW r \in Requests, Ordered(I, a, s)
    PROVE  Ordered(I, Append(a, r), s)
<1> DEFINE b == Append(a, r)
<1>1. Len(a) \in Nat /\ Len(b) = Len(a) + 1 /\ \A k \in 1..Len(a) : b[k] = a[k] /\ k \in 1..Len(b)
  OBVIOUS
<1>2. \A k \in 1..Len(a) : \A h \in 1..(k - 1) : h \in 1..Len(a)
  BY <1>1
<1> HIDE DEF b
<1>3. ASSUME NEW j \in 1..Len(s), s[j] \in I
      PROVE  \E k \in 1..Len(b) : /\ b[k] = s[j]
                                  /\ \A h \in 1..(k - 1) : b[h] \in I => \E i \in 1..(j - 1) : s[i] = b[h]
  <2>1. PICK k \in 1..Len(a) : /\ a[k] = s[j]
                               /\ \A h \in 1..(k - 1) : a[h] \in I => \E i \in 1..(j - 1) : s[i] = a[h]
    BY <1>3 DEF Ordered
  <2>2. k \in 1..Len(b) /\ b[k] = s[j] /\ \A h \in 1..(k - 1) : b[h] = a[h]
    BY <1>1, <1>2, <2>1
  <2>3. QED  BY <2>1, <2>2
<1>4. \A i, j \in 1..Len(s) : s[i] \in I /\ s[i] = s[j] => i = j
  BY DEF Ordered
<1>5. Ordered(I, b, s)
  BY <1>3, <1>4 DEF Ordered
<1>6. QED  BY <1>5 DEF b

(* It is the last one that waits. *)
LEMMA WaitsArrival ==
    ASSUME NEW I, NEW q \in Seq(Requests), NEW a \in Seq(Requests), NEW s \in Seq(Requests), NEW r \in Requests,
           Waits(I, q, a, s)
    PROVE  Waits(I, Append(q, r), Append(a, r), s)
<1> DEFINE b == Append(a, r)
           p == Append(q, r)
<1>1. /\ Len(a) \in Nat /\ Len(b) = Len(a) + 1 /\ b[Len(a) + 1] = r /\ \A k \in 1..Len(a) : b[k] = a[k]
      /\ Len(q) \in Nat /\ Len(p) = Len(q) + 1 /\ p[Len(q) + 1] = r /\ \A k \in 1..Len(q) : p[k] = q[k]
  OBVIOUS
<1> HIDE DEF b, p
<1>2. Len(q) <= Len(a) /\ Len(b) - Len(p) = Len(a) - Len(q)
  BY <1>1 DEF Waits
<1>3. \A i \in 1..Len(q) : Len(a) - Len(q) + i \in 1..Len(a)
  BY <1>1, <1>2
<1>4. ASSUME NEW i \in 1..Len(p)  PROVE p[i] = b[Len(b) - Len(p) + i]
  <2>1. CASE i \in 1..Len(q)
    BY <2>1, <1>1, <1>2, <1>3 DEF Waits
  <2>2. CASE i = Len(q) + 1
    BY <2>2, <1>1, <1>2
  <2>3. QED  BY <2>1, <2>2, <1>1
<1>5. \A h \in 1..(Len(b) - Len(p)) : h \in 1..Len(a) /\ h \in 1..(Len(a) - Len(q))
  BY <1>1, <1>2
<1>6. \A h \in 1..(Len(b) - Len(p)) : b[h] \in I => \E i \in 1..Len(s) : s[i] = b[h]
  BY <1>1, <1>5 DEF Waits
<1>7. Waits(I, p, b, s)
  BY <1>1, <1>2, <1>4, <1>6 DEF Waits
<1>8. QED  BY <1>7 DEF b, p

(* The first that waits is taken and started, or handed to a task. *)
LEMMA WaitsTaken ==
    ASSUME NEW I, NEW q \in Seq(Requests), NEW a \in Seq(Requests), NEW s \in Seq(Requests),
       NEW t \in Seq(Requests),
           q # <<>>, Waits(I, q, a, s),
           \/ Head(q) \notin I /\ t = s
           \/ t = Append(s, Head(q))
    PROVE  Waits(I, Tail(q), a, t)
<1> DEFINE p == Tail(q)
           d == Len(a) - Len(q)
<1>1. /\ Len(q) \in Nat /\ Len(q) > 0 /\ Len(p) = Len(q) - 1 /\ Head(q) = q[1] /\ Head(q) \in Requests
      /\ \A i \in 1..Len(p) : p[i] = q[i + 1] /\ i + 1 \in 1..Len(q)
      /\ Len(a) \in Nat
  OBVIOUS
<1>2. d \in Nat /\ Len(p) <= Len(a) /\ Len(a) - Len(p) = d + 1 /\ \A i \in 1..Len(p) : d + 1 + i = d + (i + 1)
  BY <1>1 DEF Waits
<1>3. /\ Len(s) \in Nat /\ Len(t) \in Nat /\ \A i \in 1..Len(s) : i \in 1..Len(t) /\ t[i] = s[i]
      /\ t # s => Len(t) = Len(s) + 1 /\ t[Len(s) + 1] = Head(q)
  <2>1. PICK r \in Requests : r = Head(q)
    BY <1>1
  <2>2. CASE t = s
    BY <2>2
  <2>3. CASE t = Append(s, r)
    <3>1. Len(s) \in Nat /\ Len(t) = Len(s) + 1 /\ t[Len(s) + 1] = r /\ \A i \in 1..Len(s) : t[i] = s[i]
      BY <2>3
    <3>2. QED  BY <2>1, <3>1
  <2>4. QED  BY <2>1, <2>2, <2>3
<1>4. /\ \A i \in 1..Len(q) : q[i] = a[d + i]
      /\ \A h \in 1..d : a[h] \in I => \E i \in 1..Len(s) : s[i] = a[h]
  BY DEF Waits
<1>5. 1 \in 1..Len(q) /\ a[d + 1] = Head(q)
  BY <1>1, <1>4
<1> HIDE DEF p, d
<1>6. ASSUME NEW i \in 1..Len(p)  PROVE p[i] = a[Len(a) - Len(p) + i]
  <2>1. p[i] = q[i + 1] /\ q[i + 1] = a[d + (i + 1)]
    BY <1>1, <1>4
  <2>2. Len(a) - Len(p) + i = d + (i + 1)
    BY <1>2
  <2>3. QED  BY <2>1, <2>2
<1>7. ASSUME NEW h \in 1..(d + 1), a[h] \in I  PROVE \E i \in 1..Len(t) : t[i] = a[h]
  <2>1. CASE h \in 1..d
    BY <2>1, <1>7, <1>3, <1>4
  <2>2. CASE h = d + 1
    <3>1. a[h] = Head(q) /\ t # s
      BY <2>2, <1>5, <1>7, <1>3
    <3>2. Len(s) + 1 \in 1..Len(t)
      BY <3>1, <1>3
    <3>3. QED  BY <3>1, <3>2, <1>3
  <2>3. QED  BY <2>1, <2>2, <1>2
<1>8. Waits(I, p, a, t)
  BY <1>2, <1>6, <1>7 DEF Waits
<1>9. QED  BY <1>8 DEF p

(* It starts after all that arrived before it. *)
LEMMA OrderedStart ==
    ASSUME NEW I, NEW q \in Seq(Requests), NEW a \in Seq(Requests), NEW s \in Seq(Requests),
           q # <<>>, Waits(I, q, a, s), Ordered(I, a, s), \A i \in 1..Len(s) : s[i] \in I => s[i] # Head(q)
    PROVE  Ordered(I, a, Append(s, Head(q)))
<1> DEFINE r == Head(q)
           t == Append(s, r)
           d == Len(a) - Len(q)
<1>1. /\ Len(q) \in Nat /\ Len(q) > 0 /\ r = q[1] /\ 1 \in 1..Len(q) /\ r \in Requests /\ Len(a) \in Nat
      /\ Len(s) \in Nat
  OBVIOUS
<1>2. Len(t) = Len(s) + 1 /\ t[Len(s) + 1] = r /\ \A i \in 1..Len(s) : t[i] = s[i]
  BY <1>1
<1>3. d \in Nat /\ d + 1 \in 1..Len(a)
  BY <1>1 DEF Waits
<1>4. a[d + 1] = r /\ \A h \in 1..d : a[h] \in I => \E i \in 1..Len(s) : s[i] = a[h]
  BY <1>1 DEF Waits
<1> HIDE DEF r, t, d
<1>5. \A i \in 1..Len(s) : s[i] \in I => s[i] # r
  BY DEF r
<1>6. \A i \in 1..Len(t) : i \in 1..Len(s) \/ i = Len(s) + 1
  BY <1>1, <1>2
<1>7. \A i, j \in 1..Len(t) : t[i] \in I /\ t[i] = t[j] => i = j
  <2>1. \A i, j \in 1..Len(s) : s[i] \in I /\ s[i] = s[j] => i = j
    BY DEF Ordered
  <2>2. QED  BY <1>2, <1>5, <1>6, <2>1
<1>8. ASSUME NEW j \in 1..Len(t), t[j] \in I
      PROVE  \E k \in 1..Len(a) : /\ a[k] = t[j]
                                  /\ \A h \in 1..(k - 1) : a[h] \in I => \E i \in 1..(j - 1) : t[i] = a[h]
  <2>1. CASE j \in 1..Len(s)
    <3>1. PICK k \in 1..Len(a) : /\ a[k] = s[j]
                                 /\ \A h \in 1..(k - 1) : a[h] \in I => \E i \in 1..(j - 1) : s[i] = a[h]
      BY <2>1, <1>2, <1>8 DEF Ordered
    <3>2. \A i \in 1..(j - 1) : i \in 1..Len(s)
      BY <2>1, <1>1
    <3>3. QED  BY <2>1, <3>1, <3>2, <1>2
  <2>2. CASE j = Len(s) + 1
    <3>1. (d + 1) - 1 = d /\ j - 1 = Len(s)
      BY <2>2, <1>1, <1>3
    <3>2. \A h \in 1..d : a[h] \in I => \E i \in 1..Len(s) : t[i] = a[h]
      BY <1>2, <1>4
    <3>3. QED  BY <2>2, <3>1, <3>2, <1>2, <1>3, <1>4
  <2>3. QED  BY <2>1, <2>2, <1>6
<1>9. Ordered(I, a, t)
  BY <1>7, <1>8 DEF Ordered
<1>10. QED  BY <1>9 DEF r, t

(* A task may start at any time. *)
LEMMA OrderedTask ==
    ASSUME NEW I, NEW q \in Seq(Requests), NEW a \in Seq(Requests), NEW s \in Seq(Requests),
       NEW r \in Requests, r \notin I
    PROVE  /\ Ordered(I, a, s) => Ordered(I, a, Append(s, r))
           /\ Waits(I, q, a, s) => Waits(I, q, a, Append(s, r))
<1> DEFINE t == Append(s, r)
<1>1. /\ Len(s) \in Nat /\ Len(t) = Len(s) + 1 /\ t[Len(s) + 1] = r
      /\ \A i \in 1..Len(s) : t[i] = s[i] /\ i \in 1..Len(t)
  OBVIOUS
<1> HIDE DEF t
<1>2. \A i \in 1..Len(t) : t[i] \in I => i \in 1..Len(s)
  BY <1>1
<1>3. \A j \in 1..Len(s) : \A i \in 1..(j - 1) : i \in 1..Len(s)
  BY <1>1
<1>4. Waits(I, q, a, s) => Waits(I, q, a, t)
  BY <1>1 DEF Waits
<1>5. ASSUME Ordered(I, a, s)  PROVE Ordered(I, a, t)
  <2>1. \A i, j \in 1..Len(t) : t[i] \in I /\ t[i] = t[j] => i = j
    BY <1>1, <1>2, <1>5 DEF Ordered
  <2>2. ASSUME NEW j \in 1..Len(t), t[j] \in I
        PROVE  \E k \in 1..Len(a) : /\ a[k] = t[j]
                                    /\ \A h \in 1..(k - 1) : a[h] \in I => \E i \in 1..(j - 1) : t[i] = a[h]
    <3>1. j \in 1..Len(s) /\ t[j] = s[j]
      BY <1>1, <1>2, <2>2
    <3>2. PICK k \in 1..Len(a) : /\ a[k] = s[j]
                                 /\ \A h \in 1..(k - 1) : a[h] \in I => \E i \in 1..(j - 1) : s[i] = a[h]
      BY <3>1, <2>2, <1>5 DEF Ordered
    <3>3. QED  BY <3>1, <3>2, <1>1, <1>3
  <2>3. QED  BY <2>1, <2>2 DEF Ordered
<1>6. QED  BY <1>4, <1>5 DEF t

(* What a step does to the order. *)
Keeps(n) ==
    /\ ns'[n].arrived = ns[n].arrived /\ ns'[n].started = ns[n].started
    /\ \/ ns'[n].queue = ns[n].queue /\ (Receiving(n)' => Receiving(n))
       \/ ns'[n].queue = <<>> /\ ~Receiving(n)'

Others(n) == \A m \in Namespaces : m # n => Keeps(m)

Arrives(r) ==
    /\ Receiving(to[r]) /\ req[r].caller = "new" /\ Others(to[r])
    /\ ns'[to[r]].queue = Append(ns[to[r]].queue, r) /\ ns'[to[r]].arrived = Append(ns[to[r]].arrived, r)
    /\ ns'[to[r]].started = ns[to[r]].started

Taken(n, r) ==
    /\ ns[n].queue # <<>> /\ r = Head(ns[n].queue) /\ ns'[n].queue = Tail(ns[n].queue) /\ Others(n)
    /\ ns'[n].arrived = ns[n].arrived
    /\ \/ AsTask(r) /\ ns'[n].started = ns[n].started
       \/ ~AsTask(r) /\ ns'[n].started = Append(ns[n].started, r) /\ req'[r].srv = "invoke"

TaskStarts(r) ==
    /\ req[r].srv = "task" /\ ns'[to[r]].queue = ns[to[r]].queue /\ (Receiving(to[r])' => Receiving(to[r]))
    /\ Others(to[r])
    /\ ns'[to[r]].arrived = ns[to[r]].arrived /\ ns'[to[r]].started = Append(ns[to[r]].started, r)

LogStep ==
    \/ \E r \in Requests : Arrives(r) \/ TaskStarts(r) \/ \E n \in Namespaces : Taken(n, r)
    \/ \A n \in Namespaces : Keeps(n)

(* A step that touches no namespace, or only a field that says nothing of the order. *)
LEMMA KeepsAll ==
    ASSUME ns \in [Namespaces -> Tables], NEW n \in Namespaces, NEW t \in Tables, ns' = [ns EXCEPT ![n] = t],
           t.arrived = ns[n].arrived, t.started = ns[n].started, closing' = closing,
           \/ t.queue = ns[n].queue /\ (t.stage \in {"up", "stopping"} => ns[n].stage \in {"up", "stopping"})
           \/ t.queue = <<>> /\ t.stage \notin {"up", "stopping"}
    PROVE  \A m \in Namespaces : Keeps(m)
<1>1. \A m \in Namespaces : m # n => ns'[m] = ns[m]
  OBVIOUS
<1>2. ns'[n] = t
  OBVIOUS
<1>3. Keeps(n)
  BY <1>2 DEF Keeps, Receiving
<1>4. \A m \in Namespaces : m # n => Keeps(m)
  BY <1>1 DEF Keeps, Receiving
<1>5. QED  BY <1>3, <1>4

(* A step that leaves the namespaces alone. *)
LEMMA StillKeeps ==
    ASSUME ns' = ns, closing' \in {closing, "sweep"}, closing # "closed" \/ closing' = closing
    PROVE  \A m \in Namespaces : Keeps(m)
  BY DEF Keeps, Receiving

(* One namespace is touched. *)
LEMMA OthersKeep ==
    ASSUME NEW n, OnlyNs(n), closing' = closing
    PROVE  Others(n)
  BY DEF OnlyNs, Others, Keeps, Receiving

(* Every action of the specification does one of these things. *)
LEMMA LogEffects ==
    ASSUME ShapeInv, Next
    PROVE  LogStep
<1>1. ns \in [Namespaces -> Tables] /\ to \in [Requests -> Namespaces] /\ closing \in {"no", "sweep", "closed"}
  BY DEF ShapeInv
<1>2. ASSUME NEW r \in Requests, Call(r), Accepting(r)  PROVE Arrives(r)
  <2>1. CallsIn(r)
    BY <1>2, CallDoes
  <2>2. /\ Receiving(to[r]) /\ req[r].caller = "new" /\ ns'[to[r]].queue = Append(ns[to[r]].queue, r)
        /\ OnlyNs(to[r]) /\ closing' = closing
    BY <2>1 DEF CallsIn, Receiving
  <2>3. Others(to[r])
    BY <2>2 DEF OnlyNs, Others, Keeps, Receiving
  <2>4. ns'[to[r]].arrived = Append(ns[to[r]].arrived, r) /\ ns'[to[r]].started = ns[to[r]].started
    <3>1. ns' = [ns EXCEPT ![to[r]].queue = Append(@, r), ![to[r]].arrived = Append(@, r)]
      BY <1>2 DEF Call
    <3>2. to[r] \in Namespaces /\ ns[to[r]] \in Tables
      BY <1>1
    <3>3. QED  BY <1>1, <3>1, <3>2 DEF Tables
  <2>5. QED  BY <2>2, <2>3, <2>4 DEF Arrives
<1>3. ASSUME NEW n \in Namespaces, Take(n)  PROVE \E r \in Requests : Taken(n, r)
  <2>1. PICK r : r = Head(ns[n].queue)
    OBVIOUS
  <2>2. r \in Requests /\ ns[n] \in Tables
    BY <1>1, <1>3, <2>1 DEF Take, Tables
  <2>3. Takes(n, r)
    BY <1>3, <2>1, <2>2, TakeTaskDoes, TakeDoes
  <2>4. /\ ns[n].queue # <<>> /\ ns'[n].queue = Tail(ns[n].queue) /\ Others(n)
        /\ ~AsTask(r) => req'[r].srv = "invoke"
    BY <2>3, OthersKeep DEF Takes
  <2>5. ns'[n].arrived = ns[n].arrived
    BY <1>1, <1>3, <2>1, <2>2 DEF Take, Tables
  <2>6. CASE AsTask(r)
    <3>1. ns'[n].started = ns[n].started
      BY <1>1, <1>3, <2>1, <2>2, <2>6 DEF Take, Tables
    <3>2. QED  BY <2>1, <2>2, <2>4, <2>5, <2>6, <3>1 DEF Taken
  <2>7. CASE ~AsTask(r)
    <3>1. ns'[n].started = Append(ns[n].started, r)
      BY <1>1, <1>3, <2>1, <2>2, <2>7 DEF Take, Tables
    <3>2. QED  BY <2>1, <2>2, <2>4, <2>5, <2>7, <3>1 DEF Taken
  <2>8. QED  BY <2>6, <2>7
<1>4. ASSUME NEW r \in Requests, StartTask(r)  PROVE TaskStarts(r)
  <2>1. Begins(r)
    BY <1>4, StartTaskDoes
  <2>2. /\ req[r].srv = "task" /\ ns'[to[r]].queue = ns[to[r]].queue /\ ns'[to[r]].stage = ns[to[r]].stage
        /\ OnlyNs(to[r]) /\ closing' = closing /\ to' = to
    BY <2>1 DEF Begins, SameQueue, SameStage, fixed
  <2>3. Others(to[r]) /\ (Receiving(to[r])' => Receiving(to[r]))
    BY <2>2 DEF OnlyNs, Others, Keeps, Receiving
  <2>4. ns'[to[r]].arrived = ns[to[r]].arrived /\ ns'[to[r]].started = Append(ns[to[r]].started, r)
    BY <1>1, <1>4 DEF StartTask, Tables
  <2>5. QED  BY <2>2, <2>3, <2>4 DEF TaskStarts
<1>5. ASSUME NEW r \in Requests, (Call(r) /\ ~Accepting(r)) \/ TimeOut(r) \/ Leave(r) \/ Open(r) \/ Emit(r)
        \/ OnCancel(r)
                                 \/ CancelDone(r) \/ SweepOne(r) \/ \E o \in {"ok", "error"} : GetReply(r, o)
      PROVE  \A m \in Namespaces : Keeps(m)
  <2>1. ns' = ns /\ closing' = closing
    BY <1>5 DEF Call, TimeOut, Leave, Open, Emit, OnCancel, CancelDone, SweepOne, GetReply
  <2>2. QED  BY <2>1, StillKeeps
<1>6. ASSUME NEW r \in Requests, Returned(r) \/ StreamEnds(r) \/ Reply(r)  PROVE \A m \in Namespaces : Keeps(m)
  <2> DEFINE t == [ns[to[r]] EXCEPT !.busy = Freed(to[r], r)]
  <2>1. ns' = [ns EXCEPT ![to[r]] = t] /\ closing' = closing
    BY <1>1, <1>6 DEF Returned, StreamEnds, Reply
  <2>2. to[r] \in Namespaces /\ ns[to[r]] \in Tables
    BY <1>1
  <2>3. Freed(to[r], r) \in Requests \cup {Idle}
    BY <2>2 DEF Tables, Freed
  <2>4. t \in Tables
    BY <2>2, <2>3 DEF Tables
  <2>5. /\ t.arrived = ns[to[r]].arrived /\ t.started = ns[to[r]].started /\ t.queue = ns[to[r]].queue
        /\ t.stage = ns[to[r]].stage
    BY <2>2 DEF Tables
  <2> HIDE DEF t
  <2>6. QED  BY <1>1, <2>1, <2>2, <2>4, <2>5, KeepsAll
<1>7. ASSUME NEW r \in Requests, Track(r) \/ ServiceTrack(r)  PROVE \A m \in Namespaces : Keeps(m)
  <2> DEFINE t == [ns[to[r]] EXCEPT !.ids = ns[to[r]].ids \cup {r}]
  <2>1. ns' = [ns EXCEPT ![to[r]] = t] /\ closing' = closing
    BY <1>1, <1>7 DEF Track, ServiceTrack
  <2>2. to[r] \in Namespaces /\ ns[to[r]] \in Tables
    BY <1>1
  <2>3. ns[to[r]].ids \cup {r} \in SUBSET Requests
    BY <2>2 DEF Tables
  <2>4. t \in Tables
    BY <2>2, <2>3 DEF Tables
  <2>5. /\ t.arrived = ns[to[r]].arrived /\ t.started = ns[to[r]].started /\ t.queue = ns[to[r]].queue
        /\ t.stage = ns[to[r]].stage
    BY <2>2 DEF Tables
  <2> HIDE DEF t
  <2>6. QED  BY <1>1, <2>1, <2>2, <2>4, <2>5, KeepsAll
<1>8. ASSUME NEW n \in Namespaces, NEW stage \in {"removing", "stopping", "removed"},
             ns[n].stage = "removing" => stage = "removed",
             ns[n].stage # "removed", closing' = closing,
             \/ ns' = [ns EXCEPT ![n].stage = stage]
             \/ stage # "stopping" /\ ns' = [ns EXCEPT ![n] = Ended(n, stage)]
      PROVE  \A m \in Namespaces : Keeps(m)
  <2> DEFINE s == [ns[n] EXCEPT !.stage = stage]
             t == [ns[n] EXCEPT !.stage = stage, !.queue = <<>>, !.busy = Idle]
  <2>1. ns[n] \in Tables
    BY <1>1
  <2>2. /\ s \in Tables /\ s.arrived = ns[n].arrived /\ s.started = ns[n].started /\ s.queue = ns[n].queue
        /\ s.stage = stage
    BY <2>1, <1>8 DEF Tables
  <2>3. t \in Tables /\ t.arrived = ns[n].arrived /\ t.started = ns[n].started /\ t.queue = <<>> /\ t.stage = stage
    <3>1. <<>> \in Seq(Requests)
      OBVIOUS
    <3>2. t \in Tables
      BY <2>1, <1>8, <3>1 DEF Tables
    <3>3. QED  BY <2>1, <3>2 DEF Tables
  <2>4. ns' = [ns EXCEPT ![n] = s] \/ (stage # "stopping" /\ ns' = [ns EXCEPT ![n] = t])
    BY <1>1, <1>8 DEF Ended
  <2>5. ns[n].stage \in {"up", "removing", "stopping"}
    BY <2>1, <1>8 DEF Tables
  <2> HIDE DEF s, t
  <2>6. CASE ns' = [ns EXCEPT ![n] = s]
    <3>1. s.stage \in {"up", "stopping"} => ns[n].stage \in {"up", "stopping"}
      BY <1>8, <2>2, <2>5
    <3>2. QED  BY <1>1, <1>8, <2>2, <2>6, <3>1, KeepsAll
  <2>7. CASE stage # "stopping" /\ ns' = [ns EXCEPT ![n] = t]
    <3>1. t.stage \notin {"up", "stopping"}
      BY <1>8, <2>3, <2>7
    <3>2. QED  BY <1>1, <1>8, <2>3, <2>7, <3>1, KeepsAll
  <2>8. QED  BY <2>4, <2>6, <2>7
<1>9. ASSUME NEW n \in Namespaces, RemoveTracked(n)  PROVE \A m \in Namespaces : Keeps(m)
  <2>1. CASE ns' = ns
    BY <1>9, <2>1, StillKeeps DEF RemoveTracked
  <2>2. CASE ns' # ns
    BY <1>8, <1>9, <2>2 DEF RemoveTracked
  <2>3. QED  BY <2>1, <2>2
<1>10. ASSUME NEW n \in Namespaces, RemoveHandlers(n) \/ Stop(n)
        \/ Stopped(n)  PROVE \A m \in Namespaces : Keeps(m)
  <2>1. CASE RemoveHandlers(n)
    BY <1>8, <2>1 DEF RemoveHandlers
  <2>2. CASE Stop(n)
    BY <1>8, <2>2 DEF Stop
  <2>3. CASE Stopped(n)
    BY <1>8, <2>3 DEF Stopped
  <2>4. QED  BY <1>10, <2>1, <2>2, <2>3
<1>11. CASE Disconnect
  BY <1>11, StillKeeps DEF Disconnect, LogStep
<1>12. CASE Disconnected
  <2>1. \A n \in Namespaces : ns'[n] = Ended(n, ns[n].stage) /\ closing' = "closed"
    BY <1>12 DEF Disconnected
  <2>2. ASSUME NEW n \in Namespaces  PROVE Keeps(n)
    <3>1. ns[n] \in Tables
      BY <1>1
    <3>2. ns'[n].arrived = ns[n].arrived /\ ns'[n].started = ns[n].started /\ ns'[n].queue = <<>>
      BY <2>1, <3>1 DEF Ended, Tables
    <3>3. QED  BY <2>1, <3>2 DEF Keeps, Receiving
  <2>3. QED  BY <2>2 DEF LogStep
<1>13. \A n \in Range(to) : n \in Namespaces
  BY <1>1 DEF Range
<1>14. ASSUME NEW r \in Requests, CallerNext(r)  PROVE LogStep
  BY <1>14, <1>2, <1>5 DEF CallerNext, LogStep
<1>15. ASSUME NEW r \in Requests, ServerNext(r)  PROVE LogStep
  <2>1. Answer(r) \/ ServiceAnswer(r) => Returned(r)
    BY DEF Answer, ServiceAnswer
  <2>2. QED  BY <1>15, <2>1, <1>4, <1>5, <1>6, <1>7 DEF ServerNext, LogStep
<1>16. ASSUME NEW r \in Requests, StreamEnds(r) \/ Emit(r)  PROVE LogStep
  BY <1>16, <1>5, <1>6 DEF LogStep
<1>17. ASSUME NEW n \in Namespaces, HostNext(n) \/ RemoveHandlers(n) \/ Stop(n)  PROVE LogStep
  BY <1>17, <1>3, <1>9, <1>10 DEF HostNext, LogStep
<1>18. QED  BY <1>11, <1>12, <1>13, <1>14, <1>15, <1>16, <1>17 DEF Next

(* Hosts, namespaces and calls stay what they are. *)
LEMMA FixedStep ==
    ASSUME Step
    PROVE  host' = host /\ to' = to /\ call' = call
<1>1. ASSUME NEW q \in Requests,
             \/ CallsIn(q) \/ CallFails(q) \/ GivesUp(q) \/ Leaves(q) \/ Begins(q) \/ Answers(q) \/ Opens(q)
             \/ StreamDone(q) \/ Tracks(q) \/ Replies(q) \/ Emits(q)
      PROVE  UNCHANGED fixed
  BY <1>1 DEF CallsIn, CallFails, GivesUp, Leaves, Begins, Answers, Returns, Opens, StreamDone, Tracks,
     Replies, Emits
<1>2. ASSUME NEW q \in Requests,
             \/ Cancelled(q) \/ CancelEnds(q) \/ SweepsOne(q) \/ (\E o \in {"ok", "error"} : Hears(q, o))
             \/ (\E n \in Namespaces : Takes(n, q) \/ Removes(n, q))
      PROVE  UNCHANGED fixed
  BY <1>2 DEF Cancelled, CancelEnds, SweepsOne, Hears, Takes, Removes
<1>3. ASSUME NEW n \in Namespaces, RemovesAll(n) \/ Stops(n) \/ RemovesTask(n) \/ StopEnds(n)
      PROVE  UNCHANGED fixed
  BY <1>3 DEF RemovesAll, Stops, RemovesTask, StopEnds
<1>4. CASE Disconnects \/ DisconnectEnds
  BY <1>4 DEF Disconnects, DisconnectEnds, fixed
<1>5. UNCHANGED fixed
  BY <1>1, <1>2, <1>3, <1>4 DEF Step, fixed
<1>6. QED  BY <1>5 DEF fixed

(* What a task runs does not hold up the message task. *)
LEMMA TasksAreNotInline ==
    ASSUME ShapeInv, NEW r \in Requests, AsTask(r)
    PROVE  r \notin Inlines
<1>1. CASE host = "client"
  BY <1>1 DEF AsTask, ClientTask, Handled, ClientKind, Inlines, Inline
<1>2. CASE host = "service"
  BY <1>2 DEF AsTask, ServiceTask, Inlines, Inline
<1>3. QED  BY <1>1, <1>2 DEF ShapeInv

(* A request that was started does not wait again. *)
LEMMA StartedStays ==
    ASSUME ShapeInv, CallerInv, Step, NEW r \in Requests, req[r].srv \notin {"none", "queued"}
    PROVE  req'[r].srv \notin {"none", "queued"}
<1>1. ASSUME NEW q \in Requests,
             \/ CallsIn(q) \/ CallFails(q) \/ GivesUp(q) \/ Leaves(q) \/ Begins(q) \/ Answers(q) \/ Opens(q)
             \/ StreamDone(q) \/ Tracks(q) \/ Replies(q) \/ Emits(q)
             \/ (\E o \in {"ok", "error"} : Hears(q, o)) \/ (\E n \in Namespaces : Takes(n, q))
      PROVE  req'[r].srv \notin {"none", "queued"}
  BY <1>1 DEF CallerInv, CallsIn, CallFails, GivesUp, Leaves, Begins, Answers, Returns, Opens, StreamDone, Tracks,
     Replies, Emits, Hears, Takes, Only, SameWork
<1>2. ASSUME NEW q \in Requests, Cancelled(q) \/ CancelEnds(q) \/ SweepsOne(q)
        \/ \E n \in Namespaces : Removes(n, q)
      PROVE  req'[r].srv \notin {"none", "queued"}
  BY <1>2 DEF Cancelled, CancelEnds, SweepsOne, Removes, CleansOut, CleansUp, Only
<1>3. ASSUME NEW n \in Namespaces, RemovesAll(n) \/ Stops(n) \/ RemovesTask(n) \/ StopEnds(n)
      PROVE  req'[r].srv \notin {"none", "queued"}
  BY <1>3 DEF RemovesAll, Stops, RemovesTask, StopEnds, CutsOff, SameWork
<1>4. CASE Disconnects \/ DisconnectEnds
  BY <1>4 DEF Disconnects, DisconnectEnds, CutsOff
<1>5. QED  BY <1>1, <1>2, <1>3, <1>4 DEF Step

(* A namespace that a step does not touch, or whose queue it empties. *)
LEMMA KeepsOrderAt ==
    ASSUME ShapeInv, CallerInv, Step, Inlines' = Inlines, NEW n \in Namespaces, OrderAt(n), Keeps(n)
    PROVE  OrderAt(n)'
<1>1. ns[n].started \in Seq(Requests) /\ \A i \in 1..Len(ns[n].started) : ns[n].started[i] \in Requests
  BY DEF ShapeInv, Tables
<1>2. \A r \in Requests : req[r].srv \notin {"none", "queued"} => req'[r].srv \notin {"none", "queued"}
  BY StartedStays
<1>3. QED  BY <1>1, <1>2 DEF OrderAt, Keeps

(* Every step keeps the order. *)
LEMMA OrderStep ==
    ASSUME EndInv, OrderInv, Next
    PROVE  OrderInv'
<1>1. ShapeInv /\ CallerInv /\ QueueInv /\ Step /\ LogStep
  BY StepEffects, LogEffects DEF EndInv
<1>2. Inlines' = Inlines /\ to' = to
  BY <1>1, FixedStep DEF Inlines, Inline
<1>3. \A r \in Requests : req[r].srv \notin {"none", "queued"} => req'[r].srv \notin {"none", "queued"}
  BY <1>1, StartedStays
<1>4. \A n \in Namespaces : OrderAt(n)
  BY DEF OrderInv
<1>5. \A n \in Namespaces : Keeps(n) => OrderAt(n)'
  BY <1>1, <1>2, <1>4, KeepsOrderAt
<1>6. \A n \in Namespaces : /\ ns[n].queue \in Seq(Requests) /\ ns[n].arrived \in Seq(Requests)
                            /\ ns[n].started \in Seq(Requests)
                            /\ \A i \in 1..Len(ns[n].started) : ns[n].started[i] \in Requests
  BY <1>1 DEF ShapeInv, Tables
<1>7. ASSUME NEW r \in Requests, Arrives(r), NEW n \in Namespaces, n = to[r]  PROVE OrderAt(n)'
  <2>1. Waits(Inlines, ns[n].queue, ns[n].arrived, ns[n].started) /\ Ordered(Inlines, ns[n].arrived, ns[n].started)
    BY <1>4, <1>7 DEF Arrives, OrderAt
  <2>2. Waits(Inlines, ns'[n].queue, ns'[n].arrived, ns'[n].started)
    BY <1>6, <1>7, <2>1, WaitsArrival DEF Arrives
  <2>3. Ordered(Inlines, ns'[n].arrived, ns'[n].started)
    BY <1>6, <1>7, <2>1, OrderedArrival DEF Arrives
  <2>4. \A i \in 1..Len(ns'[n].started) :
          ns'[n].started[i] \in Inlines => req'[ns'[n].started[i]].srv \notin {"none", "queued"}
    BY <1>3, <1>4, <1>6, <1>7 DEF Arrives, OrderAt
  <2>5. QED  BY <1>2, <2>2, <2>3, <2>4 DEF OrderAt
<1>8. ASSUME NEW r \in Requests, NEW n \in Namespaces, Taken(n, r)  PROVE OrderAt(n)'
  <2>1. Waits(Inlines, ns[n].queue, ns[n].arrived, ns[n].started) /\ Ordered(Inlines, ns[n].arrived, ns[n].started)
    BY <1>4, <1>8 DEF Taken, OrderAt
  <2>2. req[r].srv = "queued"
    <3>1. r \in Range(ns[n].queue)
      BY <1>6, <1>8 DEF Taken, Range
    <3>2. QED  BY <1>1, <3>1 DEF QueueInv
  <2>3. \A i \in 1..Len(ns[n].started) : ns[n].started[i] \in Inlines => ns[n].started[i] # r
    BY <1>4, <2>2 DEF OrderAt
  <2>4. AsTask(r) => r \notin Inlines
    BY <1>1, TasksAreNotInline
  <2>5. \/ AsTask(r) /\ ns'[n].started = ns[n].started
        \/ ns'[n].started = Append(ns[n].started, r) /\ req'[r].srv = "invoke"
    BY <1>8 DEF Taken
  <2>6. ns'[n].started \in Seq(Requests)
    BY <1>6, <2>5, OneMore
  <2>7. Waits(Inlines, ns'[n].queue, ns'[n].arrived, ns'[n].started)
    BY <1>6, <1>8, <2>1, <2>4, <2>6, WaitsTaken DEF Taken
  <2>8. Ordered(Inlines, ns'[n].arrived, ns'[n].started)
    BY <1>6, <1>8, <2>1, <2>3, OrderedStart DEF Taken
  <2>9. \A i \in 1..Len(ns'[n].started) :
          ns'[n].started[i] \in Inlines => req'[ns'[n].started[i]].srv \notin {"none", "queued"}
    <3>1. \A i \in 1..Len(ns[n].started) :
            ns[n].started[i] \in Inlines => req'[ns[n].started[i]].srv \notin {"none", "queued"}
      BY <1>3, <1>4, <1>6 DEF OrderAt
    <3>2. CASE ns'[n].started = ns[n].started
      BY <3>1, <3>2
    <3>3. CASE ns'[n].started = Append(ns[n].started, r) /\ req'[r].srv = "invoke"
      <4>1. \A i \in 1..Len(ns'[n].started) :
              (i \in 1..Len(ns[n].started) /\ ns'[n].started[i] = ns[n].started[i]) \/ ns'[n].started[i] = r
        BY <1>6, <3>3, OneMore
      <4>2. QED  BY <3>1, <3>3, <4>1
    <3>4. QED  BY <2>5, <3>2, <3>3
  <2>10. QED  BY <1>2, <2>7, <2>8, <2>9 DEF OrderAt
<1>9. ASSUME NEW r \in Requests, TaskStarts(r), NEW n \in Namespaces, n = to[r]  PROVE OrderAt(n)'
  <2>1. r \notin Inlines
    BY <1>1, <1>9, TasksAreNotInline DEF TaskStarts, QueueInv
  <2>2. (Receiving(n) \/ ns[n].queue # <<>>)' => Waits(Inlines, ns'[n].queue, ns'[n].arrived, ns'[n].started)
    <3>1. SUFFICES ASSUME (Receiving(n) \/ ns[n].queue # <<>>)'
                   PROVE  Waits(Inlines, ns'[n].queue, ns'[n].arrived, ns'[n].started)
      OBVIOUS
    <3>2. Receiving(n) \/ ns[n].queue # <<>>
      BY <1>2, <1>9, <3>1 DEF TaskStarts
    <3>3. QED  BY <1>4, <1>6, <1>9, <2>1, <3>2, OrderedTask DEF TaskStarts, OrderAt
  <2>3. Ordered(Inlines, ns'[n].arrived, ns'[n].started)
    <3>1. Ordered(Inlines, ns[n].arrived, ns[n].started)
      BY <1>4 DEF OrderAt
    <3>2. Ordered(Inlines, ns[n].arrived, Append(ns[n].started, r))
      BY <1>6, <2>1, <3>1, OrderedTask
    <3>3. QED  BY <1>9, <3>2 DEF TaskStarts
  <2>4. \A i \in 1..Len(ns'[n].started) :
          ns'[n].started[i] \in Inlines => req'[ns'[n].started[i]].srv \notin {"none", "queued"}
    <3>1. ns'[n].started = Append(ns[n].started, r)
      BY <1>9 DEF TaskStarts
    <3>2. \A i \in 1..Len(ns'[n].started) :
            (i \in 1..Len(ns[n].started) /\ ns'[n].started[i] = ns[n].started[i]) \/ ns'[n].started[i] = r
      BY <1>6, <3>1, OneMore
    <3>3. QED  BY <1>3, <1>4, <1>6, <2>1, <3>2 DEF OrderAt
  <2>5. QED  BY <1>2, <2>2, <2>3, <2>4 DEF OrderAt
<1>10. ASSUME NEW n \in Namespaces  PROVE OrderAt(n)'
  <2>1. CASE \A m \in Namespaces : Keeps(m)
    BY <2>1, <1>5
  <2>2. ASSUME NEW r \in Requests, Arrives(r) \/ TaskStarts(r)  PROVE OrderAt(n)'
    <3>1. CASE n = to[r]
      BY <2>2, <3>1, <1>7, <1>9
    <3>2. CASE n # to[r]
      BY <2>2, <3>2, <1>5 DEF Arrives, TaskStarts, Others
    <3>3. QED  BY <3>1, <3>2
  <2>3. ASSUME NEW r \in Requests, NEW m \in Namespaces, Taken(m, r)  PROVE OrderAt(n)'
    <3>1. CASE n = m
      BY <2>3, <3>1, <1>8
    <3>2. CASE n # m
      BY <2>3, <3>2, <1>5 DEF Taken, Others
    <3>3. QED  BY <3>1, <3>2
  <2>4. QED  BY <1>1, <2>1, <2>2, <2>3 DEF LogStep
<1>11. QED  BY <1>10 DEF OrderInv

(* The order holds at the start and every step keeps it. *)
LEMMA OrderInvariant ==
    Spec => []OrderInv
<1>1. Init => OrderInv
  <2>1. ASSUME Init, NEW n \in Namespaces  PROVE OrderAt(n)
    <3>1. ns[n].queue = <<>> /\ ns[n].arrived = <<>> /\ ns[n].started = <<>>
      BY <2>1 DEF Init
    <3>2. Len(<<>>) = 0
      OBVIOUS
    <3>3. QED  BY <3>1, <3>2 DEF OrderAt, Waits, Ordered
  <2>2. QED  BY <2>1 DEF OrderInv
<1>2. EndInv /\ OrderInv /\ [Next]_vars => OrderInv'
  <2>1. EndInv /\ OrderInv /\ Next => OrderInv'
    BY OrderStep
  <2>2. ASSUME OrderInv, UNCHANGED vars  PROVE OrderInv'
    BY <2>2 DEF vars, fixed, OrderInv, OrderAt, Receiving, Inlines, Inline
  <2>3. QED  BY <2>1, <2>2
<1>3. QED  BY <1>1, <1>2, EndInvariant, PTL DEF Spec

(* The requests that hold up the message task of handle_message() or of
   endpoint_handler() start in the order in which they arrived, each once, in
   every namespace: only streams and, at a service, requests that came in chunks
   may be overtaken. *)
THEOREM InOrderAlways ==
    Spec => []InOrder
<1>1. ASSUME EndInv, OrderInv
      PROVE  InOrder
  <2>1. ASSUME NEW n \in Namespaces
        PROVE  KeepsOrder(ns[n].arrived, ns[n].started)
    <3> DEFINE a == ns[n].arrived
               s == ns[n].started
    <3>1. a \in Seq(Requests) /\ s \in Seq(Requests)
      BY <1>1 DEF EndInv, ShapeInv, Tables
    <3>2. Ordered(Inlines, a, s)
      BY <1>1 DEF OrderInv, OrderAt
    <3> HIDE DEF a, s
    <3>3. /\ Len(a) \in Nat /\ DOMAIN a = 1..Len(a) /\ DOMAIN s = 1..Len(s)
          /\ \A i \in 1..Len(a) : a[i] \in Requests
          /\ \A i \in 1..Len(s) : s[i] \in Requests
      BY <3>1
    <3>4. \A k \in 1..Len(a) : \A h \in 1..(k - 1) : h \in 1..Len(a)
      BY <3>3
    <3>5. /\ \A i \in 1..Len(a) : Inline(a[i]) <=> a[i] \in Inlines
          /\ \A i \in 1..Len(s) : Inline(s[i]) <=> s[i] \in Inlines
      BY <3>3 DEF Inlines
    <3>6. KeepsOrder(a, s)
      BY <3>2, <3>3, <3>4, <3>5 DEF Ordered, KeepsOrder
    <3>7. QED  BY <3>6 DEF a, s
  <2>2. QED  BY <2>1 DEF InOrder
<1>2. QED  BY <1>1, EndInvariant, OrderInvariant, PTL

-----------------------------------------------------------------------------
(* The walk over the handlers.  It looks at every attribute of a visited object
   once (Looked), so it is over after as many steps as there are places, and then
   it has visited what can be reached; the path of a handler is the one by which
   its object was entered.  Walks of n steps are an initial segment of functions
   (IsRun), and what holds of all is shown with the least counterexample
   (Inductive). *)

(* A set of numbers has a least element: the library's well-foundedness as a fact
   about sets, which is what the inductions below rest on. *)
LEMMA NatLeast ==
  ASSUME NEW T \in SUBSET Nat, T # {}
  PROVE  \E x \in T : \A y \in T : x <= y
<1> DEFINE R == {ss \in Nat \X Nat : ss[1] < ss[2]}
<1>1. IsWellFoundedOn(R, Nat)
  BY NatLessThanWellFounded DEF OpToRel
<1>2. \A x, y \in Nat : <<y, x>> \in R <=> y < x
  OBVIOUS
<1> HIDE DEF R
<1>3. PICK x \in T : \A y \in T : ~ (<<y, x>> \in R)
  BY <1>1, WFMin
<1>4. ASSUME NEW y \in T PROVE x <= y
  <2>1. x \in Nat /\ y \in Nat
    BY <1>3, <1>4
  <2>2. <<y, x>> \notin R
    BY <1>3, <1>4
  <2>3. ~(y < x)
    BY <1>2, <2>1, <2>2
  <2>. QED BY <2>1, <2>3
<1>. QED BY <1>4

(* What holds of 0 and of the successor of whatever it holds of, in an initial
   segment, holds in all of it. *)
LEMMA Inductive ==
  ASSUME NEW N \in Nat, NEW S, 0 \in S, \A n \in 0..N : n < N /\ n \in S => n + 1 \in S
  PROVE  \A n \in 0..N : n \in S
<1> DEFINE T == {n \in 0..N : n \notin S}
<1>. SUFFICES ASSUME T # {} PROVE FALSE
  OBVIOUS
<1>1. T \in SUBSET Nat
  OBVIOUS
<1>2. PICK x \in T : \A y \in T : x <= y
  <2> HIDE DEF T
  <2>. QED BY <1>1, NatLeast
<1>3. x \in 0..N /\ x \notin S /\ x # 0
  BY <1>2
<1>4. x - 1 \in 0..N /\ x - 1 < N /\ x - 1 + 1 = x
  BY <1>3
<1>5. x - 1 \in S
  BY <1>2, <1>4
<1>. QED BY <1>3, <1>4, <1>5

-----------------------------------------------------------------------------
Obj == DOMAIN Objects
Names == UNION {{Objects[o].attrs[i].name : i \in 1..Len(Objects[o].attrs)} : o \in Obj}

Then(w) == IF w.calls = <<>> THEN w ELSE Visit(w)

(* The first n steps of the walk. *)
IsRun(root, n, f) == f = [k \in 0..n |-> IF k = 0 THEN Begin(root) ELSE Then(f[k - 1])]

(* Walks of every length exist. *)
LEMMA RunExists ==
  ASSUME NEW root, NEW N \in Nat
  PROVE  \E f : IsRun(root, N, f)
<1> DEFINE S == {n \in 0..N : \E f : IsRun(root, n, f)}
<1>1. 0 \in S
  <2> DEFINE f == [k \in 0..0 |-> Begin(root)]
  <2>1. f = [k \in 0..0 |-> IF k = 0 THEN Begin(root) ELSE Then(f[k - 1])]
    OBVIOUS
  <2> HIDE DEF f
  <2>2. IsRun(root, 0, f)
    BY <2>1 DEF IsRun
  <2>. QED BY <2>2
<1>2. ASSUME NEW n \in 0..N, n < N, n \in S
      PROVE  n + 1 \in S
  <2>1. PICK g : IsRun(root, n, g)
    BY <1>2
  <2> DEFINE f == [k \in 0..n + 1 |-> IF k = 0 THEN Begin(root) ELSE Then(g[k - 1])]
  <2>2. \A k \in 0..n : f[k] = g[k]
    BY <2>1 DEF IsRun
  <2>3. \A k \in 1..n + 1 : f[k - 1] = g[k - 1]
    <3> HIDE DEF f
    <3>1. \A k \in 1..n + 1 : k - 1 \in 0..n
      OBVIOUS
    <3>. QED BY <2>2, <3>1
  <2>4. f = [k \in 0..n + 1 |-> IF k = 0 THEN Begin(root) ELSE Then(f[k - 1])]
    <3> DEFINE h == [k \in 0..n + 1 |-> IF k = 0 THEN Begin(root) ELSE Then(f[k - 1])]
    <3>1. \A k \in 0..n + 1 : f[k] = h[k]
      <4> SUFFICES ASSUME NEW k \in 0..n + 1 PROVE f[k] = h[k]
        OBVIOUS
      <4>1. CASE k = 0
        BY <4>1
      <4>2. CASE k # 0
        <5>1. f[k - 1] = g[k - 1]
          <6> HIDE DEF f, h
          <6>. QED BY <2>3, <4>2
        <5>2. f[k] = Then(g[k - 1])
          BY <4>2
        <5>3. h[k] = Then(f[k - 1])
          <6> HIDE DEF f
          <6>. QED BY <4>2
        <5>. QED BY <5>1, <5>2, <5>3
      <4>. QED BY <4>1, <4>2
    <3>. QED BY <3>1
  <2> HIDE DEF f
  <2>5. IsRun(root, n + 1, f)
    BY <2>4 DEF IsRun
  <2>. QED BY <1>2, <2>5
<1> HIDE DEF S
<1>3. N \in S
  BY <1>1, <1>2, Inductive
<1>. QED BY <1>3 DEF S

(* What WithDecorators() returns is what the last walk has found. *)
LEMMA WalkRuns ==
  ASSUME NEW root, Cardinality(Places) \in Nat
  PROVE  \E f : IsRun(root, Cardinality(Places), f) /\ WithDecorators(root) = f[Cardinality(Places)].handlers
<1> DEFINE N == Cardinality(Places)
           F == CHOOSE f : IsRun(root, N, f)
<1>1. IsRun(root, N, F)
  <2>1. \E f : IsRun(root, N, f)
    BY RunExists
  <2>. QED BY <2>1
<1>2. F = CHOOSE f : f = [n \in 0..N |-> IF n = 0 THEN Begin(root)
                                ELSE IF f[n - 1].calls = <<>> THEN f[n - 1] ELSE Visit(f[n - 1])]
  BY DEF IsRun, Then
<1>3. WithDecorators(root) = F[N].handlers
  BY <1>2 DEF WithDecorators
<1>. QED BY <1>1, <1>3

-----------------------------------------------------------------------------
Walks ==
    [path : [Obj -> Seq(Names)], next : [Obj -> Nat], calls : Seq(Obj), handlers : SUBSET Seq(Names)]

(* The place where a walk is: the object of its innermost call, and the
   attribute that is next. *)
Top(w) == Last(w.calls)
Here(w) == Objects[Top(w)].attrs[w.next[Top(w)]]
PathHere(w) == Append(w.path[Top(w)], Here(w).name)
AtEnd(w) == w.next[Top(w)] > Len(Objects[Top(w)].attrs)

(* Every call under way is at an attribute of its object or at its end, and is the
   only one for it; the others that began have returned. *)
CallsInv(w) ==
    /\ \A k \in 1..Len(w.calls) : w.next[w.calls[k]] \in 1..Len(Objects[w.calls[k]].attrs) + 1
    /\ \A j, k \in 1..Len(w.calls) : w.calls[j] = w.calls[k] => j = k
    /\ \A o \in Obj : w.next[o] = 0 \/ w.next[o] = Len(Objects[o].attrs) + 2
                        \/ \E k \in 1..Len(w.calls) : w.calls[k] = o

(* The attributes of a list. *)
LEMMA Attributes ==
  ASSUME NEW o \in Obj
  PROVE  /\ Len(Objects[o].attrs) \in Nat
         /\ \A i \in 1..Len(Objects[o].attrs) :
               /\ Objects[o].attrs[i] \in Range(Objects[o].attrs)
               /\ Objects[o].attrs[i].name \in Names
               /\ Descends(o, Objects[o].attrs[i]) => Objects[o].attrs[i].to \in Obj
         /\ \A a \in Range(Objects[o].attrs) : \E i \in 1..Len(Objects[o].attrs) : a = Objects[o].attrs[i]
<1>1. Objects[o].attrs \in Seq(Range(Objects[o].attrs))
  BY ExposureAssumption DEF Obj
<1>2. Len(Objects[o].attrs) \in Nat /\ DOMAIN Objects[o].attrs = 1..Len(Objects[o].attrs)
  BY <1>1
<1>3. \A i \in 1..Len(Objects[o].attrs) : Objects[o].attrs[i] \in Range(Objects[o].attrs)
  BY <1>2 DEF Range
<1>4. \A a \in Range(Objects[o].attrs) : \E i \in 1..Len(Objects[o].attrs) : a = Objects[o].attrs[i]
  BY <1>2 DEF Range
<1>5. \A i \in 1..Len(Objects[o].attrs) : Descends(o, Objects[o].attrs[i]) => Objects[o].attrs[i].to \in Obj
  BY <1>3, ExposureAssumption DEF Obj, Descends
<1>6. \A i \in 1..Len(Objects[o].attrs) : Objects[o].attrs[i].name \in Names
  BY DEF Names
<1>. QED BY <1>2, <1>3, <1>4, <1>5, <1>6

(* The innermost call. *)
LEMMA TopOf ==
  ASSUME NEW w \in Walks, CallsInv(w), w.calls # <<>>
  PROVE  /\ Len(w.calls) \in Nat \ {0} /\ Top(w) = w.calls[Len(w.calls)] /\ Top(w) \in Obj
         /\ w.next[Top(w)] \in 1..Len(Objects[Top(w)].attrs) + 1
         /\ Front(w.calls) \in Seq(Obj) /\ Len(Front(w.calls)) = Len(w.calls) - 1
         /\ \A k \in 1..Len(w.calls) - 1 : Front(w.calls)[k] = w.calls[k]
<1>1. w.calls \in Seq(Obj) /\ Len(w.calls) \in Nat \ {0}
  BY DEF Walks
<1>2. Top(w) = w.calls[Len(w.calls)] /\ Top(w) \in Obj
  BY <1>1 DEF Top, Last
<1>3. w.next[Top(w)] \in 1..Len(Objects[Top(w)].attrs) + 1
  BY <1>1, <1>2 DEF CallsInv
<1>4. Front(w.calls) \in Seq(Obj) /\ Len(Front(w.calls)) = Len(w.calls) - 1
      /\ \A k \in 1..Len(w.calls) - 1 : Front(w.calls)[k] = w.calls[k]
  BY <1>1 DEF Front
<1>. QED BY <1>1, <1>2, <1>3, <1>4

(* The types of its fields. *)
LEMMA WalkTypes ==
  ASSUME NEW w \in Walks
  PROVE  /\ w.path \in [Obj -> Seq(Names)] /\ w.next \in [Obj -> Nat]
         /\ w.calls \in Seq(Obj) /\ w.handlers \in SUBSET Seq(Names)
  BY DEF Walks

(* A step: the innermost call returns, serves an attribute, enters one, or
   passes it over. *)
Advanced(w) == [w.next EXCEPT ![Top(w)] = w.next[Top(w)] + 1]
WalkReturns(w, v) ==
    AtEnd(w) /\ v = Walk(w.path, Advanced(w), Front(w.calls), w.handlers)
WalkServes(w, v) ==
    /\ ~AtEnd(w) /\ Exposes(Top(w), Here(w)) /\ ~Descends(Top(w), Here(w))
    /\ v = Walk(w.path, Advanced(w), w.calls, w.handlers \cup {PathHere(w)})
WalkEnters(w, v) ==
    /\ ~AtEnd(w) /\ ~Exposes(Top(w), Here(w)) /\ Descends(Top(w), Here(w)) /\ w.next[Here(w).to] = 0
    /\ v = Walk([w.path EXCEPT ![Here(w).to] = PathHere(w)], [Advanced(w) EXCEPT ![Here(w).to] = 1],
                Append(w.calls, Here(w).to), w.handlers)
WalkPasses(w, v) ==
    /\ ~AtEnd(w) /\ ~Exposes(Top(w), Here(w))
    /\ Descends(Top(w), Here(w)) => w.next[Here(w).to] # 0
    /\ v = Walk(w.path, Advanced(w), w.calls, w.handlers)

LEMMA VisitDoes ==
  ASSUME NEW w
  PROVE  \/ WalkReturns(w, Visit(w)) \/ WalkServes(w, Visit(w))
         \/ WalkEnters(w, Visit(w)) \/ WalkPasses(w, Visit(w))
<1>1. Exposes(Top(w), Here(w)) => ~Descends(Top(w), Here(w))
  BY DEF Exposes, Descends
<1>2. CASE AtEnd(w)
  BY <1>2 DEF Visit, WalkReturns, AtEnd, Top, Advanced
<1>3. CASE ~AtEnd(w) /\ Exposes(Top(w), Here(w))
  BY <1>1, <1>3 DEF Visit, WalkServes, AtEnd, Top, Advanced, Here, PathHere
<1>4. CASE ~AtEnd(w) /\ ~Exposes(Top(w), Here(w)) /\ Descends(Top(w), Here(w)) /\ w.next[Here(w).to] = 0
  BY <1>4 DEF Visit, WalkEnters, AtEnd, Top, Advanced, Here, PathHere
<1>5. CASE /\ ~AtEnd(w) /\ ~Exposes(Top(w), Here(w))
           /\ ~(Descends(Top(w), Here(w)) /\ w.next[Here(w).to] = 0)
  BY <1>5 DEF Visit, WalkPasses, AtEnd, Top, Advanced, Here, PathHere
<1>. QED BY <1>2, <1>3, <1>4, <1>5

(* An attribute named x of object p that is walked into, to object q; and a way
   along such attributes. *)
Edge(p, x, q) == \E a \in Range(Objects[p].attrs) : a.name = x /\ a.to = q /\ Descends(p, a)
Way(root, path, o) ==
    \E way \in [1..Len(path) + 1 -> Obj] :
        /\ way[1] = root /\ way[Len(path) + 1] = o
        /\ \A i \in 1..Len(path) : Edge(way[i], path[i], way[i + 1])

(* Leads, by the way to the object and the attribute of it. *)
LEMMA LeadsByWay ==
  ASSUME NEW S, NEW path \in Seq(S), NEW x \in S, NEW root, NEW o \in Obj,
         Way(root, path, o), NEW a \in Range(Objects[o].attrs), a.name = x, Exposes(o, a)
  PROVE  Leads(root, Append(path, x), o) /\ Last(Append(path, x)) = x
<1> DEFINE longer == Append(path, x)
<1>1. /\ Len(path) \in Nat /\ Len(longer) = Len(path) + 1 /\ longer \in Seq(S)
      /\ longer[Len(longer)] = x /\ \A i \in 1..Len(path) : longer[i] = path[i]
      /\ longer # <<>>
  OBVIOUS
<1> HIDE DEF longer
<1>2. PICK way \in [1..Len(path) + 1 -> Obj] :
        /\ way[1] = root /\ way[Len(path) + 1] = o
        /\ \A i \in 1..Len(path) : Edge(way[i], path[i], way[i + 1])
  BY DEF Way
<1>3. \A i \in 1..Len(longer) - 1 : \E b \in Range(Objects[way[i]].attrs) :
            /\ b.name = longer[i] /\ ~b.hidden /\ b.is = "object" /\ b.to = way[i + 1]
            /\ Objects[way[i]].dict \/ b.mark = "nested"
  <2> SUFFICES ASSUME NEW i \in 1..Len(longer) - 1
               PROVE  \E b \in Range(Objects[way[i]].attrs) :
                        /\ b.name = longer[i] /\ ~b.hidden /\ b.is = "object" /\ b.to = way[i + 1]
                        /\ Objects[way[i]].dict \/ b.mark = "nested"
    OBVIOUS
  <2>1. i \in 1..Len(path)
    BY <1>1
  <2>2. Edge(way[i], path[i], way[i + 1]) /\ longer[i] = path[i]
    BY <1>1, <1>2, <2>1
  <2>. QED BY <2>2 DEF Edge, Descends
<1>4. \E b \in Range(Objects[o].attrs) : b.name = longer[Len(longer)] /\ Exposes(o, b)
  BY <1>1
<1>5. way \in [1..Len(longer) -> DOMAIN Objects] /\ way[1] = root /\ way[Len(longer)] = o
  BY <1>1, <1>2 DEF Obj
<1>6. Leads(root, longer, o)
  BY <1>1, <1>3, <1>4, <1>5 DEF Leads
<1>7. Last(longer) = x
  BY <1>1 DEF Last
<1>. QED BY <1>6, <1>7 DEF longer

(* A way goes on along a walked attribute. *)
LEMMA WayGoesOn ==
  ASSUME NEW S, NEW path \in Seq(S), NEW x \in S, NEW root, NEW o \in Obj, NEW q \in Obj,
         Way(root, path, o), Edge(o, x, q)
  PROVE  Way(root, Append(path, x), q)
<1> DEFINE longer == Append(path, x)
<1>1. /\ Len(path) \in Nat /\ Len(longer) = Len(path) + 1 /\ longer \in Seq(S)
      /\ longer[Len(longer)] = x /\ \A i \in 1..Len(path) : longer[i] = path[i]
  OBVIOUS
<1> HIDE DEF longer
<1>2. PICK way \in [1..Len(path) + 1 -> Obj] :
        /\ way[1] = root /\ way[Len(path) + 1] = o
        /\ \A i \in 1..Len(path) : Edge(way[i], path[i], way[i + 1])
  BY DEF Way
<1> DEFINE on == [i \in 1..Len(longer) + 1 |-> IF i = Len(longer) + 1 THEN q ELSE way[i]]
<1>3. on \in [1..Len(longer) + 1 -> Obj]
  BY <1>1, <1>2
<1>4. on[1] = root /\ on[Len(longer) + 1] = q /\ \A i \in 1..Len(longer) : on[i] = way[i]
  BY <1>1, <1>2
<1> HIDE DEF on
<1>5. ASSUME NEW i \in 1..Len(longer)
      PROVE  Edge(on[i], longer[i], on[i + 1])
  <2>1. CASE i = Len(longer)
    BY <1>1, <1>2, <1>4, <2>1
  <2>2. CASE i # Len(longer)
    <3>1. i \in 1..Len(path) /\ i + 1 \in 1..Len(longer)
      BY <1>1, <2>2
    <3>. QED BY <1>1, <1>2, <1>4, <3>1
  <2>. QED BY <2>1, <2>2
<1>6. Way(root, longer, q)
  BY <1>3, <1>4, <1>5 DEF Way
<1>. QED BY <1>6 DEF longer

(* What was looked at is served or entered. *)
Seen(w, o, i) ==
    i \in 1..Len(Objects[o].attrs) /\ i < w.next[o] =>
        /\ Exposes(o, Objects[o].attrs[i]) => Append(w.path[o], Objects[o].attrs[i].name) \in w.handlers
        /\ Descends(o, Objects[o].attrs[i]) => w.next[Objects[o].attrs[i].to] # 0

SeenInv(w) == \A o \in Obj, i \in Nat : Seen(w, o, i)
WayInv(root, w) == \A o \in Obj : w.next[o] # 0 => Way(root, w.path[o], o)
MarkedInv(root, w) == \A h \in w.handlers : \E o \in Obj : Leads(root, h, o)
WalkInv(root, w) ==
    /\ w \in Walks /\ CallsInv(w) /\ SeenInv(w) /\ WayInv(root, w) /\ MarkedInv(root, w)
    /\ w.next[root] # 0

LEMMA BeginInv == ASSUME NEW root \in Obj PROVE WalkInv(root, Begin(root))
<1> DEFINE w == Begin(root)
<1>1. w \in Walks /\ w.path = [o \in Obj |-> <<>>] /\ w.next = [o \in Obj |-> IF o = root THEN 1 ELSE 0]
      /\ w.calls = <<root>> /\ w.handlers = {}
  <2> DEFINE p == [o \in Obj |-> <<>>]
             q == [o \in Obj |-> IF o = root THEN 1 ELSE 0]
             c == <<root>>
             h == {}
  <2>1. p \in [Obj -> Seq(Names)] /\ q \in [Obj -> Nat] /\ c \in Seq(Obj) /\ h \in SUBSET Seq(Names)
    OBVIOUS
  <2>2. w = Walk(p, q, c, h)
    BY DEF Begin, Obj
  <2>3. w \in Walks /\ w.path = p /\ w.next = q /\ w.calls = c /\ w.handlers = h
    <3> HIDE DEF p, q, c, h, w
    <3>. QED BY <2>1, <2>2 DEF Walk, Walks
  <2>. QED BY <2>3
<1> HIDE DEF w
<1>2. CallsInv(w)
  BY <1>1, Attributes DEF CallsInv
<1>3. SeenInv(w)
  BY <1>1 DEF SeenInv, Seen
<1>4. WayInv(root, w)
  <2> SUFFICES ASSUME NEW o \in Obj, w.next[o] # 0 PROVE Way(root, w.path[o], o)
    BY DEF WayInv
  <2>1. o = root /\ w.path[o] = <<>>
    BY <1>1
  <2> DEFINE way == [i \in 1..Len(<<>>) + 1 |-> root]
  <2>2. Len(<<>>) = 0 /\ way \in [1..Len(<<>>) + 1 -> Obj] /\ way[1] = root /\ way[Len(<<>>) + 1] = root
    OBVIOUS
  <2>3. \A i \in 1..Len(<<>>) : Edge(way[i], <<>>[i], way[i + 1])
    BY <2>2
  <2> HIDE DEF way
  <2>4. Way(root, <<>>, root)
    BY <2>2, <2>3 DEF Way
  <2>. QED BY <2>1, <2>4
<1>5. MarkedInv(root, w) /\ w.next[root] # 0
  BY <1>1 DEF MarkedInv
<1>6. WalkInv(root, w)
  BY <1>1, <1>2, <1>3, <1>4, <1>5 DEF WalkInv
<1>. QED BY <1>6 DEF w

(* Where the walk is. *)
LEMMA HereFacts ==
  ASSUME NEW root, NEW w, WalkInv(root, w), w.calls # <<>>, ~AtEnd(w)
  PROVE  /\ w.next[Top(w)] \in 1..Len(Objects[Top(w)].attrs)
         /\ Here(w) \in Range(Objects[Top(w)].attrs) /\ Here(w).name \in Names
         /\ Descends(Top(w), Here(w)) => Here(w).to \in Obj
         /\ w.path[Top(w)] \in Seq(Names) /\ PathHere(w) \in Seq(Names)
         /\ Way(root, w.path[Top(w)], Top(w))
<1>1. /\ w \in Walks /\ Top(w) \in Obj /\ w.next[Top(w)] \in 1..Len(Objects[Top(w)].attrs) + 1
      /\ Len(Objects[Top(w)].attrs) \in Nat
  BY TopOf, Attributes DEF WalkInv
<1>2. w.next[Top(w)] \in 1..Len(Objects[Top(w)].attrs)
  BY <1>1 DEF AtEnd
<1>3. w.path[Top(w)] \in Seq(Names)
  BY <1>1, WalkTypes
<1>4. Here(w).name \in Names /\ Here(w) \in Range(Objects[Top(w)].attrs)
      /\ (Descends(Top(w), Here(w)) => Here(w).to \in Obj)
  BY <1>1, <1>2, Attributes DEF Here
<1>5. PathHere(w) \in Seq(Names)
  BY <1>3, <1>4 DEF PathHere
<1>6. Way(root, w.path[Top(w)], Top(w))
  BY <1>1 DEF WalkInv, WayInv
<1>. QED BY <1>2, <1>3, <1>4, <1>5, <1>6

LEMMA AdvancedFacts ==
  ASSUME NEW w \in Walks, CallsInv(w), w.calls # <<>>
  PROVE  /\ Advanced(w) \in [Obj -> Nat] /\ Advanced(w)[Top(w)] = w.next[Top(w)] + 1
         /\ \A o \in Obj : o # Top(w) => Advanced(w)[o] = w.next[o]
         /\ \A o \in Obj : w.next[o] # 0 => Advanced(w)[o] # 0
         /\ \A o \in Obj : Advanced(w)[o] # 0 => w.next[o] # 0
<1>1. Top(w) \in Obj /\ w.next[Top(w)] \in Nat /\ w.next \in [Obj -> Nat] /\ w.next[Top(w)] # 0
  <2>1. Top(w) \in Obj /\ w.next[Top(w)] \in 1..Len(Objects[Top(w)].attrs) + 1
    BY TopOf
  <2>. QED BY <2>1, WalkTypes
<1>. QED BY <1>1 DEF Advanced

LEMMA ReturnsInv ==
  ASSUME NEW root \in Obj, NEW w, WalkInv(root, w), w.calls # <<>>, NEW v, WalkReturns(w, v)
  PROVE  WalkInv(root, v)
<1>1. w \in Walks /\ CallsInv(w) /\ Len(Objects[Top(w)].attrs) \in Nat
  BY TopOf, Attributes DEF WalkInv
<1>2. w.next[Top(w)] = Len(Objects[Top(w)].attrs) + 1
  <2>1. w.next[Top(w)] \in 1..Len(Objects[Top(w)].attrs) + 1
    BY <1>1, TopOf
  <2>2. w.next[Top(w)] > Len(Objects[Top(w)].attrs)
    BY DEF WalkReturns, AtEnd
  <2>. QED BY ONLY <1>1, <2>1, <2>2
<1>3. v \in Walks /\ v.path = w.path /\ v.next = Advanced(w) /\ v.calls = Front(w.calls) /\ v.handlers = w.handlers
  <2>1. Advanced(w) \in [Obj -> Nat]
    BY <1>1, AdvancedFacts
  <2>2. Front(w.calls) \in Seq(Obj)
    BY <1>1, TopOf
  <2>3. w.path \in [Obj -> Seq(Names)] /\ w.handlers \in SUBSET Seq(Names)
    BY <1>1, WalkTypes
  <2>4. v = Walk(w.path, Advanced(w), Front(w.calls), w.handlers)
    BY DEF WalkReturns
  <2>. QED BY <2>1, <2>2, <2>3, <2>4 DEF Walk, Walks
<1>4. CallsInv(v)
  <2>1. \A k \in 1..Len(v.calls) : k \in 1..Len(w.calls) /\ v.calls[k] = w.calls[k] /\ v.calls[k] # Top(w)
    <3>1. Len(w.calls) \in Nat \ {0} /\ Top(w) = w.calls[Len(w.calls)] /\ Len(v.calls) = Len(w.calls) - 1
          /\ \A k \in 1..Len(w.calls) - 1 : v.calls[k] = w.calls[k]
      BY <1>1, <1>3, TopOf
    <3>2. \A j, k \in 1..Len(w.calls) : w.calls[j] = w.calls[k] => j = k
      BY <1>1 DEF CallsInv
    <3>. QED BY <3>1, <3>2
  <2>2. \A k \in 1..Len(w.calls) : w.calls[k] # Top(w) => k \in 1..Len(v.calls)
    BY <1>1, <1>3, TopOf
  <2>3. \A k \in 1..Len(v.calls) : v.calls[k] \in Obj
    <3>1. v.calls \in Seq(Obj)
      BY <1>3, WalkTypes
    <3>. QED BY <3>1
  <2>4. \A k \in 1..Len(v.calls) : v.next[v.calls[k]] \in 1..Len(Objects[v.calls[k]].attrs) + 1
    <3> SUFFICES ASSUME NEW k \in 1..Len(v.calls)
                 PROVE  v.next[v.calls[k]] \in 1..Len(Objects[v.calls[k]].attrs) + 1
      OBVIOUS
    <3>1. v.next[v.calls[k]] = w.next[w.calls[k]]
      BY <1>1, <1>3, <2>1, <2>3, AdvancedFacts
    <3>2. w.next[w.calls[k]] \in 1..Len(Objects[w.calls[k]].attrs) + 1
      BY <1>1, <2>1 DEF CallsInv
    <3>. QED BY <2>1, <3>1, <3>2
  <2>5. \A j, k \in 1..Len(v.calls) : v.calls[j] = v.calls[k] => j = k
    BY <1>1, <2>1 DEF CallsInv
  <2>6. ASSUME NEW o \in Obj
        PROVE  v.next[o] = 0 \/ v.next[o] = Len(Objects[o].attrs) + 2 \/ \E k \in 1..Len(v.calls) : v.calls[k] = o
    <3>1. CASE o = Top(w)
      <4>1. v.next[o] = w.next[o] + 1
        BY <1>1, <1>3, <3>1, AdvancedFacts
      <4>. QED BY <1>1, <1>2, <3>1, <4>1
    <3>2. CASE o # Top(w)
      <4>1. v.next[o] = w.next[o]
        BY <1>1, <1>3, <3>2, AdvancedFacts
      <4>2. w.next[o] = 0 \/ w.next[o] = Len(Objects[o].attrs) + 2 \/ \E k \in 1..Len(w.calls) : w.calls[k] = o
        BY <1>1 DEF CallsInv
      <4>. QED BY <2>1, <2>2, <3>2, <4>1, <4>2
    <3>. QED BY <3>1, <3>2
  <2>. QED BY <2>4, <2>5, <2>6 DEF CallsInv
<1>5. SeenInv(v)
  <2> SUFFICES ASSUME NEW o \in Obj, NEW i \in Nat PROVE Seen(v, o, i)
    BY DEF SeenInv
  <2>1. Seen(w, o, i)
    BY DEF WalkInv, SeenInv
  <2>2. i \in 1..Len(Objects[o].attrs) /\ i < v.next[o] => i < w.next[o]
    <3>1. CASE o = Top(w)
      BY <1>1, <1>2, <3>1
    <3>2. CASE o # Top(w)
      BY <1>1, <1>3, <3>2, AdvancedFacts
    <3>. QED BY <3>1, <3>2
  <2>3. i \in 1..Len(Objects[o].attrs) /\ Descends(o, Objects[o].attrs[i]) => Objects[o].attrs[i].to \in Obj
    BY Attributes
  <2>. QED BY <1>1, <1>3, <2>1, <2>2, <2>3, AdvancedFacts DEF Seen
<1>6. WayInv(root, v) /\ MarkedInv(root, v) /\ v.next[root] # 0
  BY <1>1, <1>3, AdvancedFacts DEF WalkInv, WayInv, MarkedInv
<1>. QED BY <1>3, <1>4, <1>5, <1>6 DEF WalkInv

(* The walk goes on in the same object. *)
LEMMA StaysInv ==
  ASSUME NEW root \in Obj, NEW w, WalkInv(root, w), w.calls # <<>>, ~AtEnd(w),
         NEW h \in SUBSET Seq(Names), w.handlers \subseteq h,
         \A p \in h : p \in w.handlers \/ \E o \in Obj : Leads(root, p, o),
         Exposes(Top(w), Here(w)) => PathHere(w) \in h,
         Descends(Top(w), Here(w)) => w.next[Here(w).to] # 0
  PROVE  WalkInv(root, Walk(w.path, Advanced(w), w.calls, h))
<1> DEFINE v == Walk(w.path, Advanced(w), w.calls, h)
<1>1. w \in Walks /\ CallsInv(w) /\ Len(Objects[Top(w)].attrs) \in Nat /\ Top(w) \in Obj
  BY TopOf, Attributes DEF WalkInv
<1>2. w.next[Top(w)] \in 1..Len(Objects[Top(w)].attrs)
  BY HereFacts
<1>3. v \in Walks /\ v.path = w.path /\ v.next = Advanced(w) /\ v.calls = w.calls /\ v.handlers = h
  <2>1. Advanced(w) \in [Obj -> Nat]
    BY <1>1, AdvancedFacts
  <2>2. w.path \in [Obj -> Seq(Names)] /\ w.calls \in Seq(Obj)
    BY <1>1, WalkTypes
  <2>. QED BY <2>1, <2>2 DEF Walk, Walks
<1> HIDE DEF v
<1>4. CallsInv(v)
  <2>1. \A j, k \in 1..Len(v.calls) : v.calls[j] = v.calls[k] => j = k
    BY <1>1, <1>3 DEF CallsInv
  <2>2. ASSUME NEW k \in 1..Len(v.calls)
        PROVE  v.next[v.calls[k]] \in 1..Len(Objects[v.calls[k]].attrs) + 1
    <3>1. w.next[w.calls[k]] \in 1..Len(Objects[w.calls[k]].attrs) + 1 /\ v.calls[k] = w.calls[k]
      BY <1>1, <1>3, <2>2 DEF CallsInv
    <3>2. w.calls[k] \in Obj
      BY <1>1, <1>3, <2>2, WalkTypes
    <3>3. CASE w.calls[k] = Top(w)
      <4>1. v.next[v.calls[k]] = w.next[Top(w)] + 1
        BY <1>1, <1>3, <3>1, <3>3, AdvancedFacts
      <4>. QED BY <1>1, <1>2, <3>1, <3>3, <4>1
    <3>4. CASE w.calls[k] # Top(w)
      <4>1. v.next[v.calls[k]] = w.next[w.calls[k]]
        BY <1>1, <1>3, <3>1, <3>2, <3>4, AdvancedFacts
      <4>. QED BY <3>1, <4>1
    <3>. QED BY <3>3, <3>4
  <2>3. ASSUME NEW o \in Obj
        PROVE  v.next[o] = 0 \/ v.next[o] = Len(Objects[o].attrs) + 2 \/ \E k \in 1..Len(v.calls) : v.calls[k] = o
    <3>1. CASE o = Top(w)
      <4>1. Len(w.calls) \in Nat \ {0} /\ Top(w) = w.calls[Len(w.calls)]
        BY <1>1, TopOf
      <4>2. Len(w.calls) \in 1..Len(w.calls)
        BY <4>1
      <4>. QED BY <1>3, <3>1, <4>1, <4>2
    <3>2. CASE o # Top(w)
      <4>1. v.next[o] = w.next[o]
        BY <1>1, <1>3, <3>2, AdvancedFacts
      <4>. QED BY <1>1, <1>3, <4>1 DEF CallsInv
    <3>. QED BY <3>1, <3>2
  <2>. QED BY <2>1, <2>2, <2>3 DEF CallsInv
<1>5. SeenInv(v)
  <2> SUFFICES ASSUME NEW o \in Obj, NEW i \in 1..Len(Objects[o].attrs), i < v.next[o] PROVE Seen(v, o, i)
    BY DEF SeenInv, Seen
  <2>1. i \in Nat /\ (Descends(o, Objects[o].attrs[i]) => Objects[o].attrs[i].to \in Obj)
    BY Attributes
  <2>2. CASE i < w.next[o]
    <3>1. Seen(w, o, i)
      BY <2>1 DEF WalkInv, SeenInv
    <3>. QED BY <1>1, <1>3, <2>1, <2>2, <3>1, AdvancedFacts DEF Seen
  <2>3. CASE ~(i < w.next[o])
    <3>1. o = Top(w)
      BY <1>1, <1>3, <2>3, AdvancedFacts
    <3>2. i = w.next[Top(w)]
      <4>1. v.next[o] = w.next[Top(w)] + 1
        BY <1>1, <1>3, <3>1, AdvancedFacts
      <4>. QED BY <1>1, <1>2, <2>1, <2>3, <3>1, <4>1
    <3>3. Objects[o].attrs[i] = Here(w) /\ Append(w.path[o], Objects[o].attrs[i].name) = PathHere(w)
      BY <3>1, <3>2 DEF Here, PathHere
    <3>. QED BY <1>1, <1>3, <2>1, <3>1, <3>3, AdvancedFacts DEF Seen
  <2>. QED BY <2>2, <2>3
<1>6. WayInv(root, v) /\ v.next[root] # 0
  BY <1>1, <1>3, AdvancedFacts DEF WalkInv, WayInv
<1>7. MarkedInv(root, v)
  BY <1>3 DEF WalkInv, MarkedInv
<1>8. WalkInv(root, v)
  BY <1>3, <1>4, <1>5, <1>6, <1>7 DEF WalkInv
<1>. QED BY <1>8 DEF v

LEMMA ServesInv ==
  ASSUME NEW root \in Obj, NEW w, WalkInv(root, w), w.calls # <<>>, NEW v, WalkServes(w, v)
  PROVE  WalkInv(root, v)
<1> DEFINE h == w.handlers \cup {PathHere(w)}
<1>1. ~AtEnd(w) /\ Exposes(Top(w), Here(w)) /\ ~Descends(Top(w), Here(w))
      /\ v = Walk(w.path, Advanced(w), w.calls, h)
  BY DEF WalkServes
<1>2. w.handlers \in SUBSET Seq(Names) /\ PathHere(w) \in Seq(Names)
  BY <1>1, HereFacts, WalkTypes DEF WalkInv
<1>3. \E o \in Obj : Leads(root, PathHere(w), o)
  <2>1. Top(w) \in Obj
    BY TopOf DEF WalkInv
  <2>2. /\ w.path[Top(w)] \in Seq(Names) /\ Here(w).name \in Names /\ Here(w) \in Range(Objects[Top(w)].attrs)
        /\ Way(root, w.path[Top(w)], Top(w))
    BY <1>1, HereFacts
  <2>3. Leads(root, PathHere(w), Top(w))
    BY <1>1, <2>1, <2>2, LeadsByWay DEF PathHere
  <2>. QED BY <2>1, <2>3
<1>4. h \in SUBSET Seq(Names) /\ w.handlers \subseteq h /\ PathHere(w) \in h
      /\ \A p \in h : p \in w.handlers \/ \E o \in Obj : Leads(root, p, o)
  BY <1>2, <1>3
<1> HIDE DEF h
<1>. QED BY <1>1, <1>4, StaysInv

LEMMA PassesInv ==
  ASSUME NEW root \in Obj, NEW w, WalkInv(root, w), w.calls # <<>>, NEW v, WalkPasses(w, v)
  PROVE  WalkInv(root, v)
<1> DEFINE h == w.handlers
<1>1. ~AtEnd(w) /\ ~Exposes(Top(w), Here(w)) /\ (Descends(Top(w), Here(w)) => w.next[Here(w).to] # 0)
      /\ v = Walk(w.path, Advanced(w), w.calls, h)
  BY DEF WalkPasses
<1>2. h \in SUBSET Seq(Names)
  BY WalkTypes DEF WalkInv
<1>. QED BY <1>1, <1>2, StaysInv

(* The walk enters an object that was not visited. *)
LEMMA EntersInv ==
  ASSUME NEW root \in Obj, NEW w, WalkInv(root, w), w.calls # <<>>, NEW v, WalkEnters(w, v)
  PROVE  WalkInv(root, v)
<1> DEFINE t == Here(w).to
<1>1. ~AtEnd(w) /\ ~Exposes(Top(w), Here(w)) /\ Descends(Top(w), Here(w)) /\ w.next[t] = 0
  BY DEF WalkEnters
<1>2. w \in Walks /\ CallsInv(w) /\ Len(Objects[Top(w)].attrs) \in Nat /\ Top(w) \in Obj
  BY TopOf, Attributes DEF WalkInv
<1>3. /\ w.next[Top(w)] \in 1..Len(Objects[Top(w)].attrs) /\ t \in Obj /\ PathHere(w) \in Seq(Names)
      /\ Here(w) \in Range(Objects[Top(w)].attrs) /\ Here(w).name \in Names
      /\ w.path[Top(w)] \in Seq(Names) /\ Way(root, w.path[Top(w)], Top(w))
  BY <1>1, HereFacts
<1> HIDE DEF t
<1>4. t # Top(w) /\ t # root
  BY <1>1, <1>2, <1>3 DEF WalkInv
<1> DEFINE q == [Advanced(w) EXCEPT ![t] = 1]
           p == [w.path EXCEPT ![t] = PathHere(w)]
           c == Append(w.calls, t)
<1>5. /\ q \in [Obj -> Nat] /\ q[t] = 1 /\ q[Top(w)] = w.next[Top(w)] + 1
      /\ \A o \in Obj : o # Top(w) /\ o # t => q[o] = w.next[o]
      /\ \A o \in Obj : w.next[o] # 0 => q[o] # 0
  BY <1>2, <1>3, <1>4, AdvancedFacts
<1>6. p \in [Obj -> Seq(Names)] /\ p[t] = PathHere(w) /\ \A o \in Obj : o # t => p[o] = w.path[o]
  <2>1. w.path \in [Obj -> Seq(Names)]
    BY <1>2, WalkTypes
  <2>. QED BY <1>3, <2>1
<1>7. /\ w.calls \in Seq(Obj) /\ Len(w.calls) \in Nat
      /\ c \in Seq(Obj) /\ Len(c) = Len(w.calls) + 1 /\ c[Len(c)] = t
      /\ \A k \in 1..Len(w.calls) : c[k] = w.calls[k] /\ w.calls[k] \in Obj
  <2>1. w.calls \in Seq(Obj)
    BY <1>2, WalkTypes
  <2>. QED BY <1>3, <2>1
<1>8. v = Walk(p, q, c, w.handlers)
  BY DEF WalkEnters, t
<1> HIDE DEF p, q, c
<1>9. v \in Walks /\ v.path = p /\ v.next = q /\ v.calls = c /\ v.handlers = w.handlers
  <2>1. w.handlers \in SUBSET Seq(Names)
    BY <1>2, WalkTypes
  <2>. QED BY <1>5, <1>6, <1>7, <1>8, <2>1 DEF Walk, Walks
<1>10. CallsInv(v)
  <2>1. \A k \in 1..Len(w.calls) : w.next[w.calls[k]] \in 1..Len(Objects[w.calls[k]].attrs) + 1
    BY <1>2 DEF CallsInv
  <2>2. \A k \in 1..Len(w.calls) : c[k] = w.calls[k] /\ c[k] # t /\ c[k] \in Obj
    BY <1>1, <1>7, <2>1
  <2>3. \A k \in 1..Len(c) : k = Len(c) \/ k \in 1..Len(w.calls)
    BY <1>7
  <2>4. \A j, k \in 1..Len(c) : c[j] = c[k] => j = k
    <3>1. \A j, k \in 1..Len(w.calls) : w.calls[j] = w.calls[k] => j = k
      BY <1>2 DEF CallsInv
    <3>. QED BY <1>7, <2>2, <2>3, <3>1
  <2>5. ASSUME NEW k \in 1..Len(c)
        PROVE  q[c[k]] \in 1..Len(Objects[c[k]].attrs) + 1
    <3>1. CASE k = Len(c)
      <4>1. Len(Objects[t].attrs) \in Nat
        BY <1>3, Attributes
      <4>. QED BY <1>5, <1>7, <3>1, <4>1
    <3>2. CASE k \in 1..Len(w.calls) /\ c[k] = Top(w)
      BY <1>2, <1>3, <1>5, <3>2
    <3>3. CASE k \in 1..Len(w.calls) /\ c[k] # Top(w)
      <4>1. q[c[k]] = w.next[c[k]] /\ c[k] = w.calls[k]
        BY <1>5, <2>2, <3>3
      <4>. QED BY <2>1, <3>3, <4>1
    <3>. QED BY <2>3, <3>1, <3>2, <3>3
  <2>6. ASSUME NEW o \in Obj
        PROVE  q[o] = 0 \/ q[o] = Len(Objects[o].attrs) + 2 \/ \E k \in 1..Len(c) : c[k] = o
    <3>1. \A k \in 1..Len(w.calls) : k \in 1..Len(c)
      BY <1>7
    <3>2. CASE o = t
      <4>1. Len(c) \in 1..Len(c)
        BY <1>7
      <4>. QED BY <1>7, <3>2, <4>1
    <3>3. CASE o = Top(w)
      <4>1. Len(w.calls) \in Nat \ {0} /\ Top(w) = w.calls[Len(w.calls)]
        BY <1>2, TopOf
      <4>2. Len(w.calls) \in 1..Len(w.calls)
        BY <4>1
      <4>. QED BY <1>7, <3>1, <3>3, <4>1, <4>2
    <3>4. CASE o # t /\ o # Top(w)
      <4>1. q[o] = w.next[o]
        BY <1>5, <3>4
      <4>2. w.next[o] = 0 \/ w.next[o] = Len(Objects[o].attrs) + 2 \/ \E k \in 1..Len(w.calls) : w.calls[k] = o
        BY <1>2 DEF CallsInv
      <4>. QED BY <1>7, <3>1, <4>1, <4>2
    <3>. QED BY <3>2, <3>3, <3>4
  <2>. QED BY <1>9, <2>4, <2>5, <2>6 DEF CallsInv
<1>11. SeenInv(v)
  <2> SUFFICES ASSUME NEW o \in Obj, NEW i \in 1..Len(Objects[o].attrs), i < v.next[o] PROVE Seen(v, o, i)
    BY DEF SeenInv, Seen
  <2>1. i \in Nat /\ i >= 1 /\ (Descends(o, Objects[o].attrs[i]) => Objects[o].attrs[i].to \in Obj)
    BY Attributes
  <2>2. o # t
    BY <1>5, <1>9, <2>1
  <2>3. CASE i < w.next[o]
    <3>1. Seen(w, o, i)
      BY <2>1 DEF WalkInv, SeenInv
    <3>. QED BY <1>5, <1>6, <1>9, <2>1, <2>2, <2>3, <3>1 DEF Seen
  <2>4. CASE ~(i < w.next[o])
    <3>1. o = Top(w)
      BY <1>5, <1>9, <2>2, <2>4
    <3>2. i = w.next[Top(w)]
      BY <1>3, <1>5, <1>9, <2>1, <2>4, <3>1
    <3>3. Objects[o].attrs[i] = Here(w)
      BY <3>1, <3>2 DEF Here
    <3>. QED BY <1>1, <1>5, <1>9, <3>1, <3>3 DEF Seen, t
  <2>. QED BY <2>3, <2>4
<1>12. WayInv(root, v)
  <2> SUFFICES ASSUME NEW o \in Obj, v.next[o] # 0 PROVE Way(root, v.path[o], o)
    BY DEF WayInv
  <2>1. CASE o = t
    <3>1. Edge(Top(w), Here(w).name, t)
      BY <1>1, <1>3 DEF Edge, t
    <3>2. Way(root, PathHere(w), t)
      BY <1>2, <1>3, <3>1, WayGoesOn DEF PathHere
    <3>. QED BY <1>6, <1>9, <2>1, <3>2
  <2>2. CASE o # t
    <3>1. w.next[o] # 0
      BY <1>3, <1>5, <1>9, <2>2
    <3>. QED BY <1>6, <1>9, <2>2, <3>1 DEF WalkInv, WayInv
  <2>. QED BY <2>1, <2>2
<1>13. MarkedInv(root, v) /\ v.next[root] # 0
  BY <1>5, <1>9 DEF WalkInv, MarkedInv
<1>. QED BY <1>9, <1>10, <1>11, <1>12, <1>13 DEF WalkInv

LEMMA VisitInv ==
  ASSUME NEW root \in Obj, NEW w, WalkInv(root, w), w.calls # <<>>
  PROVE  WalkInv(root, Visit(w))
  BY VisitDoes, ReturnsInv, ServesInv, EntersInv, PassesInv

(* There are finitely many places. *)
LEMMA PlacesFinite == IsFiniteSet(Places) /\ Cardinality(Places) \in Nat
<1> DEFINE At(o) == {o} \X (1..Len(Objects[o].attrs) + 1)
           All == {At(o) : o \in Obj}
           f == [o \in Obj |-> At(o)]
<1>1. f \in Surjection(Obj, All)
  BY DEF Surjection
<1>2. IsFiniteSet(Obj)
  BY ExposureAssumption DEF Obj
<1>3. IsFiniteSet(All)
  <2> HIDE DEF All, f
  <2>. QED BY <1>1, <1>2, FS_Surjection
<1>4. ASSUME NEW o \in Obj
      PROVE  IsFiniteSet(At(o))
  <2>1. IsFiniteSet({o})
    BY FS_Singleton
  <2>2. 1 \in Int /\ Len(Objects[o].attrs) + 1 \in Int
    BY Attributes
  <2>3. IsFiniteSet(1..Len(Objects[o].attrs) + 1)
    BY <2>2, FS_Interval
  <2>. QED BY <2>1, <2>3, FS_Product
<1>5. \A T \in All : IsFiniteSet(T)
  BY <1>4
<1>6. IsFiniteSet(UNION All)
  <2> HIDE DEF All
  <2>. QED BY <1>3, <1>5, FS_UNION
<1>7. Places = UNION All
  BY DEF Places, Obj
<1>. QED BY <1>6, <1>7, FS_CardinalityType

(* The places that a walk has looked at. *)
Looked(w) == {p \in Places : p[2] < w.next[p[1]]}

(* A step looks at one more place. *)
LEMMA LooksAtMore ==
  ASSUME NEW root \in Obj, NEW w, WalkInv(root, w), w.calls # <<>>
  PROVE  Cardinality(Looked(Visit(w))) >= Cardinality(Looked(w)) + 1
<1> DEFINE v == Visit(w)
           here == <<Top(w), w.next[Top(w)]>>
<1>1. w \in Walks /\ CallsInv(w)
  BY DEF WalkInv
<1>2. /\ Top(w) \in Obj /\ w.next[Top(w)] \in 1..Len(Objects[Top(w)].attrs) + 1
      /\ w.next[Top(w)] \in Nat
  <2>1. Top(w) \in Obj /\ w.next[Top(w)] \in 1..Len(Objects[Top(w)].attrs) + 1
    BY <1>1, TopOf
  <2>. QED BY <2>1
<1>3. here \in Places
  BY <1>2 DEF Places, Obj
<1>4. \A p \in Places : p[1] \in Obj /\ p[2] \in Nat
  BY Attributes DEF Places, Obj
<1>5. v \in Walks
  BY VisitInv DEF WalkInv
<1>6. v.next[Top(w)] = w.next[Top(w)] + 1 /\ \A o \in Obj : w.next[o] <= v.next[o]
  <2>1. /\ Advanced(w) \in [Obj -> Nat] /\ Advanced(w)[Top(w)] = w.next[Top(w)] + 1
        /\ \A o \in Obj : o # Top(w) => Advanced(w)[o] = w.next[o]
    BY <1>1, AdvancedFacts
  <2>2. w.next \in [Obj -> Nat]
    BY <1>1, WalkTypes
  <2>3. CASE WalkEnters(w, v)
    <3> DEFINE t == Here(w).to
    <3>1. t \in Obj /\ w.next[t] = 0
      BY <2>3, HereFacts DEF WalkEnters
    <3>2. v.next = [Advanced(w) EXCEPT ![t] = 1]
      BY <2>3 DEF WalkEnters, Walk
    <3>3. t # Top(w)
      BY <1>2, <3>1
    <3> HIDE DEF t, v
    <3>. QED BY <1>2, <2>1, <2>2, <3>1, <3>2, <3>3
  <2>4. CASE ~WalkEnters(w, v)
    <3>1. v.next = Advanced(w)
      BY <2>4, VisitDoes DEF WalkReturns, WalkServes, WalkPasses, Walk
    <3> HIDE DEF v
    <3>. QED BY <1>2, <2>1, <2>2, <3>1
  <2>. QED BY <2>3, <2>4
<1> HIDE DEF v
<1>7. here \in Looked(v) /\ here \notin Looked(w)
  BY <1>2, <1>3, <1>6 DEF Looked
<1>8. Looked(w) \cup {here} \subseteq Looked(v)
  <2>1. \A p \in Looked(w) : p \in Looked(v)
    <3> SUFFICES ASSUME NEW p \in Places, p[2] < w.next[p[1]] PROVE p[2] < v.next[p[1]]
      BY DEF Looked
    <3>1. p[1] \in Obj /\ p[2] \in Nat /\ w.next[p[1]] \in Nat /\ v.next[p[1]] \in Nat
      BY <1>1, <1>4, <1>5, WalkTypes
    <3>. QED BY <1>6, <3>1
  <2>. QED BY <1>7, <2>1
<1>9. IsFiniteSet(Looked(w)) /\ IsFiniteSet(Looked(v))
  <2>1. Looked(w) \subseteq Places /\ Looked(v) \subseteq Places
    BY DEF Looked
  <2>. QED BY <2>1, PlacesFinite, FS_Subset
<1>10. Cardinality(Looked(w) \cup {here}) = Cardinality(Looked(w)) + 1
  BY <1>7, <1>9, FS_AddElement
<1>11. Cardinality(Looked(w) \cup {here}) <= Cardinality(Looked(v))
  BY <1>8, <1>9, FS_Subset
<1>12. Cardinality(Looked(w)) \in Nat /\ Cardinality(Looked(v)) \in Nat
  BY <1>9, FS_CardinalityType
<1>13. Cardinality(Looked(v)) >= Cardinality(Looked(w)) + 1
  BY <1>10, <1>11, <1>12
<1>. QED BY <1>13 DEF v

(* The walk after n steps: the invariant holds, and either it is over or it has
   looked at n places. *)
LEMMA WalkAfter ==
  ASSUME NEW root \in Obj, NEW N \in Nat, NEW f, IsRun(root, N, f)
  PROVE  WalkInv(root, f[N]) /\ (f[N].calls = <<>> \/ Cardinality(Looked(f[N])) >= N)
<1> DEFINE S == {n \in 0..N : WalkInv(root, f[n]) /\ (f[n].calls = <<>> \/ Cardinality(Looked(f[n])) >= n)}
<1>1. f[0] = Begin(root) /\ \A n \in 0..N : n < N => f[n + 1] = Then(f[n])
  <2>1. \A k \in 0..N : f[k] = IF k = 0 THEN Begin(root) ELSE Then(f[k - 1])
    BY DEF IsRun
  <2>2. 0 \in 0..N /\ \A n \in 0..N : n < N => n + 1 \in 0..N /\ n + 1 # 0 /\ n + 1 - 1 = n
    OBVIOUS
  <2>. QED BY <2>1, <2>2
<1>2. \A w : IsFiniteSet(Looked(w)) /\ Cardinality(Looked(w)) \in Nat
  <2> SUFFICES ASSUME NEW w PROVE IsFiniteSet(Looked(w)) /\ Cardinality(Looked(w)) \in Nat
    OBVIOUS
  <2>1. Looked(w) \subseteq Places
    BY DEF Looked
  <2>. QED BY <2>1, PlacesFinite, FS_Subset, FS_CardinalityType
<1>3. 0 \in S
  <2>1. WalkInv(root, f[0])
    BY <1>1, BeginInv
  <2>2. Cardinality(Looked(f[0])) >= 0
    BY <1>2
  <2>. QED BY <2>1, <2>2
<1>4. ASSUME NEW n \in 0..N, n < N, n \in S
      PROVE  n + 1 \in S
  <2>1. WalkInv(root, f[n]) /\ (f[n].calls = <<>> \/ Cardinality(Looked(f[n])) >= n)
        /\ f[n + 1] = Then(f[n]) /\ n + 1 \in 0..N
    BY <1>1, <1>4
  <2>2. CASE f[n].calls = <<>>
    BY <2>1, <2>2 DEF Then
  <2>3. CASE f[n].calls # <<>>
    <3>1. f[n + 1] = Visit(f[n])
      BY <2>1, <2>3 DEF Then
    <3>2. WalkInv(root, Visit(f[n])) /\ Cardinality(Looked(Visit(f[n]))) >= Cardinality(Looked(f[n])) + 1
      BY <2>1, <2>3, VisitInv, LooksAtMore
    <3>3. Cardinality(Looked(f[n + 1])) >= n + 1
      BY <1>2, <2>1, <2>3, <3>1, <3>2
    <3>. QED BY <2>1, <3>1, <3>2, <3>3
  <2>. QED BY <2>2, <2>3
<1> HIDE DEF S
<1>5. N \in S
  BY <1>3, <1>4, Inductive
<1>. QED BY <1>5 DEF S

(* The walk ends: when it has looked at all places, no call is left. *)
LEMMA WalkOver ==
  ASSUME NEW root \in Obj, NEW w, WalkInv(root, w), w.calls = <<>> \/ Cardinality(Looked(w)) >= Cardinality(Places)
  PROVE  w.calls = <<>>
<1>. SUFFICES ASSUME w.calls # <<>> PROVE FALSE
  OBVIOUS
<1>1. Looked(w) \subseteq Places
  BY DEF Looked
<1>2. /\ Cardinality(Looked(w)) <= Cardinality(Places)
      /\ Cardinality(Places) = Cardinality(Looked(w)) => Places = Looked(w)
      /\ Cardinality(Looked(w)) \in Nat
  BY <1>1, PlacesFinite, FS_Subset, FS_CardinalityType
<1>3. Places = Looked(w)
  BY <1>2, PlacesFinite
<1>4. Top(w) \in Obj /\ w.next[Top(w)] \in 1..Len(Objects[Top(w)].attrs) + 1
  BY TopOf DEF WalkInv
<1>5. <<Top(w), w.next[Top(w)]>> \in Places
  BY <1>4 DEF Places, Obj
<1>6. <<Top(w), w.next[Top(w)]>> \in Looked(w) /\ w.next[Top(w)] \in Nat
  BY <1>3, <1>4, <1>5
<1>7. w.next[Top(w)] < w.next[Top(w)]
  BY <1>6 DEF Looked
<1>. QED BY <1>6, <1>7

(* A walk that is over has visited what a way leads to. *)
LEMMA WayVisited ==
  ASSUME NEW root \in Obj, NEW w, WalkInv(root, w), w.calls = <<>>,
         NEW n \in Nat, NEW way \in [1..n + 1 -> Obj], way[1] = root,
         NEW name, \A i \in 1..n : Edge(way[i], name[i], way[i + 1])
  PROVE  w.next[way[n + 1]] # 0
<1> DEFINE S == {k \in 0..n : w.next[way[k + 1]] # 0}
<1>1. 0 \in S
  BY DEF WalkInv
<1>2. ASSUME NEW k \in 0..n, k < n, k \in S
      PROVE  k + 1 \in S
  <2>1. k + 1 \in 1..n /\ k + 1 \in 0..n /\ way[k + 1] \in Obj /\ w.next[way[k + 1]] # 0
    BY <1>2
  <2>2. Edge(way[k + 1], name[k + 1], way[k + 1 + 1])
    BY <2>1
  <2>3. PICK a \in Range(Objects[way[k + 1]].attrs) : a.to = way[k + 1 + 1] /\ Descends(way[k + 1], a)
    BY <2>2 DEF Edge
  <2>4. PICK i \in 1..Len(Objects[way[k + 1]].attrs) : a = Objects[way[k + 1]].attrs[i]
    BY <2>1, Attributes
  <2>5. w.next[way[k + 1]] = Len(Objects[way[k + 1]].attrs) + 2
    <3>1. w.next[way[k + 1]] = Len(Objects[way[k + 1]].attrs) + 2
            \/ \E j \in 1..Len(w.calls) : w.calls[j] = way[k + 1]
      BY <2>1 DEF WalkInv, CallsInv
    <3>2. Len(w.calls) = 0
      OBVIOUS
    <3>. QED BY <3>1, <3>2
  <2>6. Seen(w, way[k + 1], i)
    BY <2>1 DEF WalkInv, SeenInv
  <2>7. Len(Objects[way[k + 1]].attrs) \in Nat
    BY <2>1, Attributes
  <2>8. i < w.next[way[k + 1]]
    BY <2>5, <2>7
  <2>9. w.next[way[k + 1 + 1]] # 0
    BY <2>3, <2>4, <2>6, <2>8 DEF Seen
  <2>. QED BY <2>1, <2>9
<1> HIDE DEF S
<1>3. \A k \in 0..n : k < n /\ k \in S => k + 1 \in S
  BY <1>2
<1>4. \A k \in 0..n : k \in S
  BY ONLY <1>1, <1>3, n \in Nat, Inductive
<1>5. n \in S
  BY <1>4
<1>. QED BY <1>5 DEF S

(* extract_nested_methods_with_decorators() returns only what is marked and
   reachable, and every such method under one of its paths, for every graph of
   objects. *)
THEOREM WalkFindsWhatIsMarked ==
  ASSUME NEW root \in DOMAIN Objects
  PROVE  /\ \A p \in WithDecorators(root) : \E o \in DOMAIN Objects : Leads(root, p, o)
         /\ \A S : \A path \in Seq(S) : \A o \in DOMAIN Objects : Leads(root, path, o) =>
                \E p \in WithDecorators(root) : Last(p) = Last(path) /\ Leads(root, p, o)
<1>1. root \in Obj
  BY DEF Obj
<1>2. PICK f : IsRun(root, Cardinality(Places), f) /\ WithDecorators(root) = f[Cardinality(Places)].handlers
  BY PlacesFinite, WalkRuns
<1> DEFINE w == f[Cardinality(Places)]
<1>3. WalkInv(root, w) /\ (w.calls = <<>> \/ Cardinality(Looked(w)) >= Cardinality(Places))
  BY <1>1, <1>2, PlacesFinite, WalkAfter
<1> HIDE DEF w
<1>4. w.calls = <<>>
  BY <1>1, <1>3, WalkOver
<1>5. WithDecorators(root) = w.handlers
  BY <1>2 DEF w
<1>6. \A p \in WithDecorators(root) : \E o \in DOMAIN Objects : Leads(root, p, o)
  BY <1>3, <1>5 DEF WalkInv, MarkedInv, Obj
<1>7. ASSUME NEW S, NEW path \in Seq(S), NEW o \in DOMAIN Objects, Leads(root, path, o)
      PROVE  \E p \in WithDecorators(root) : Last(p) = Last(path) /\ Leads(root, p, o)
  <2>1. PICK way \in [1..Len(path) -> Obj] :
            /\ way[1] = root /\ way[Len(path)] = o
            /\ \A i \in 1..Len(path) - 1 : \E a \in Range(Objects[way[i]].attrs) :
                /\ a.name = path[i] /\ ~a.hidden /\ a.is = "object" /\ a.to = way[i + 1]
                /\ Objects[way[i]].dict \/ a.mark = "nested"
    BY <1>7 DEF Leads, Obj
  <2>2. path # <<>> /\ \E a \in Range(Objects[o].attrs) : a.name = path[Len(path)] /\ Exposes(o, a)
    BY <1>7 DEF Leads
  <2>3. PICK a \in Range(Objects[o].attrs) : a.name = path[Len(path)] /\ Exposes(o, a)
    BY <2>2
  <2> DEFINE n == Len(path) - 1
  <2>4. n \in Nat /\ n + 1 = Len(path)
    BY <2>2
  <2>5. \A i \in 1..n : Edge(way[i], path[i], way[i + 1])
    BY <2>1 DEF Edge, Descends
  <2> HIDE DEF n
  <2>6. w.next[way[n + 1]] # 0
    <3>1. way \in [1..n + 1 -> Obj] /\ way[1] = root
      BY <2>1, <2>4
    <3>. QED BY ONLY <1>1, <1>3, <1>4, <2>4, <2>5, <3>1, WayVisited
  <2>7. o \in Obj /\ w.next[o] # 0
    BY <2>1, <2>4, <2>6 DEF Obj
  <2>8. PICK i \in 1..Len(Objects[o].attrs) : a = Objects[o].attrs[i]
    BY <2>7, Attributes
  <2>9. w.next[o] = Len(Objects[o].attrs) + 2 /\ Len(Objects[o].attrs) \in Nat
    <3>1. w.next[o] = Len(Objects[o].attrs) + 2 \/ \E j \in 1..Len(w.calls) : w.calls[j] = o
      BY <1>3, <2>7 DEF WalkInv, CallsInv
    <3>2. Len(w.calls) = 0
      BY <1>4
    <3>. QED BY <2>7, <3>1, <3>2, Attributes
  <2>10. Seen(w, o, i)
    BY <1>3, <2>7 DEF WalkInv, SeenInv
  <2> DEFINE p == Append(w.path[o], a.name)
  <2>11. p \in w.handlers
    BY <2>3, <2>8, <2>9, <2>10 DEF Seen
  <2>12. w.path[o] \in Seq(Names) /\ a.name \in Names /\ Way(root, w.path[o], o)
    BY <1>3, <2>7, <2>8, WalkTypes, Attributes DEF WalkInv, WayInv
  <2>13. Leads(root, p, o) /\ Last(p) = a.name
    BY <2>3, <2>7, <2>12, LeadsByWay
  <2>14. Last(path) = a.name
    BY <2>2, <2>3 DEF Last
  <2>. QED BY <1>5, <2>11, <2>13, <2>14
<1>. QED BY <1>6, <1>7

-----------------------------------------------------------------------------
(* What a server works on is a path it serves. *)
ServedInv == \A r \in Requests : req[r].srv # "none" => call[r].path \in Served(to[r])

(* The server has a request only after it arrived at what serves its path. *)
LEMMA ServerBegins ==
    ASSUME ShapeInv, QueueInv, Next, NEW r \in Requests, req[r].srv = "none", req'[r].srv # "none"
    PROVE  call[r].path \in Served(to[r])
<1>1. Step
  BY StepEffects
<1>2. ASSUME NEW q \in Requests, CallsIn(q)
      PROVE  call[r].path \in Served(to[r])
  BY <1>2 DEF CallsIn, Only
<1>3. ASSUME NEW q \in Requests,
             \/ CallFails(q) \/ GivesUp(q) \/ Leaves(q) \/ Begins(q) \/ Answers(q) \/ Opens(q) \/ StreamDone(q)
             \/ Tracks(q) \/ Replies(q) \/ Emits(q) \/ Cancelled(q) \/ CancelEnds(q) \/ SweepsOne(q)
             \/ \E o \in {"ok", "error"} : Hears(q, o)
      PROVE  FALSE
  BY <1>3 DEF CallFails, GivesUp, Leaves, Begins, Answers, Returns, Opens, StreamDone, Tracks, Replies, Emits,
              Cancelled, CancelEnds, SweepsOne, CleansOut, CleansUp, Hears, Only, SameWork
<1>4. ASSUME NEW q \in Requests, NEW n \in Namespaces, Takes(n, q) \/ Removes(n, q)
      PROVE  FALSE
  <2>1. CASE Takes(n, q)
    <3>1. ns[n].queue \in Seq(Requests) /\ ns[n].queue # <<>> /\ q = Head(ns[n].queue)
      BY <2>1 DEF ShapeInv, Tables, Takes
    <3>2. q \in Range(ns[n].queue)
      BY <3>1 DEF Range
    <3>3. req[q].srv = "queued"
      BY <3>2 DEF QueueInv
    <3>. QED  BY <2>1, <3>3 DEF Takes, Only
  <2>2. CASE Removes(n, q)
    BY <2>2 DEF Removes, CleansOut, CleansUp, Only
  <2>. QED  BY <1>4, <2>1, <2>2
<1>5. ASSUME NEW n \in Namespaces, CutsOff(n, r)
      PROVE  FALSE
  BY <1>5, CutsWork DEF Interrupts, Working
<1>6. ASSUME NEW n \in Namespaces, RemovesAll(n) \/ Stops(n) \/ RemovesTask(n) \/ StopEnds(n)
      PROVE  FALSE
  BY <1>5, <1>6 DEF RemovesAll, Stops, RemovesTask, StopEnds, SameWork
<1>7. CASE Disconnects \/ DisconnectEnds
  <2>1. to[r] \in Namespaces
    BY DEF ShapeInv
  <2>. QED  BY <1>5, <1>7, <2>1 DEF Disconnects, DisconnectEnds
<1> HIDE DEF ServedInv
<1>. QED  BY <1>1, <1>2, <1>3, <1>4, <1>6, <1>7 DEF Step

LEMMA ServedInvariant ==
    Spec => [](EndInv /\ ServedInv)
<1>1. Init => ServedInv
  BY DEF Init, ServedInv
<1>2. EndInv /\ ServedInv /\ [Next]_vars => ServedInv'
  <2> SUFFICES ASSUME EndInv, ServedInv, [Next]_vars, NEW r \in Requests, req'[r].srv # "none"
               PROVE  (call[r].path \in Served(to[r]))'
    BY DEF ServedInv
  <2>1. UNCHANGED fixed
    <3>1. CASE Next
      <4>1. Step
        BY <3>1, StepEffects DEF EndInv
      <4>. QED  BY <4>1, FixedStep DEF fixed
    <3>2. CASE UNCHANGED vars
      BY <3>2 DEF vars
    <3>. QED  BY <3>1, <3>2
  <2>2. host' = host /\ to' = to /\ call' = call
    BY <2>1, StillFixed
  <2>3. call[r].path \in Served(to[r])
    <3>1. CASE req[r].srv # "none"
      BY <3>1 DEF ServedInv
    <3>2. CASE req[r].srv = "none" /\ Next
      BY <3>2, ServerBegins DEF EndInv
    <3>3. CASE req[r].srv = "none" /\ UNCHANGED vars
      BY <3>3 DEF vars
    <3>. QED  BY <3>1, <3>2, <3>3
  <2>. QED  BY <2>2, <2>3 DEF Served, ServiceServed, Decorated, Undecorated
<1>3. QED  BY <1>1, <1>2, EndInvariant, PTL DEF Spec

(* With decorators, or at a service, register_handler() and register_service()
   serve only what is marked and reachable along marked attributes, and every such
   method under one of its paths; the statement holds for any graph of objects,
   with shared and cyclic parts. *)
THEOREM ServesWhatIsMarkedAlways ==
    Spec => []ServesWhatIsMarked
<1>1. ASSUME EndInv, ServedInv
      PROVE  OnlyMarkedRuns /\ MarkedIsServed
  <2>1. \A n \in Namespaces : Walked(n) => Served(n) = WithDecorators(Handlers[n].root)
    BY DEF Walked, Served, ServiceServed, Decorated
  <2>2. \A r \in Requests : to[r] \in Namespaces /\ call[r] \in Shapes
    BY <1>1 DEF EndInv, ShapeInv
  <2>3. \A n \in Namespaces : Handlers[n].root \in DOMAIN Objects
    BY EndpointAssumption
  <2>4. OnlyMarkedRuns
    <3> SUFFICES ASSUME NEW r \in Requests, req[r].srv # "none", Walked(to[r])
                 PROVE  \E o \in DOMAIN Objects : Leads(Handlers[to[r]].root, call[r].path, o)
      BY DEF OnlyMarkedRuns
    <3>1. call[r].path \in WithDecorators(Handlers[to[r]].root)
      BY <1>1, <2>1, <2>2 DEF ServedInv
    <3>. QED  BY <2>2, <2>3, <3>1, WalkFindsWhatIsMarked
  <2>5. MarkedIsServed
    <3> SUFFICES ASSUME NEW r \in Requests, Walked(to[r]), NEW o \in DOMAIN Objects,
                        Leads(Handlers[to[r]].root, call[r].path, o)
                 PROVE  \E p \in Served(to[r]) :
                            Last(p) = Last(call[r].path) /\ Leads(Handlers[to[r]].root, p, o)
      BY DEF MarkedIsServed
    <3>1. call[r].path \in Seq(STRING)
      BY <2>2 DEF Shapes
    <3>2. \E p \in WithDecorators(Handlers[to[r]].root) :
                Last(p) = Last(call[r].path) /\ Leads(Handlers[to[r]].root, p, o)
      BY <2>2, <2>3, <3>1, WalkFindsWhatIsMarked
    <3>. QED  BY <2>1, <2>2, <3>2
  <2>. QED  BY <2>4, <2>5
<1>2. QED  BY <1>1, EndpointTypes, ServedInvariant, PTL DEF ServesWhatIsMarked
=============================================================================
